---------------------------- MODULE Spec2Model ----------------------------
(***************************************************************************)
(* A model of the chemical-waste management application: the inward entry  *)
(* service (lot numbers, pagination), the inward and companies controllers *)
(* and the invoice modal with its append-to-existing-invoice workflow.     *)
(*                                                                         *)
(* Each part has its own specification over the shared variables:          *)
(*   SpecInward  InwardService.createEntry / updateEntry / deleteEntry     *)
(*   SpecRace    InwardService.createEntry, requests running concurrently  *)
(*   SpecPage    InwardService.getAllEntries                               *)
(*   SpecCtl     InwardController and CompaniesController                  *)
(*   SpecRoute   the companies, dashboard, invoices, settings and          *)
(*               inward-materials routers                                  *)
(*   SpecTotals  CreateInvoiceModal: the totals of the form                *)
(*   SpecCheck   CreateInvoiceModal: the existing-invoice check            *)
(*   SpecModal   CreateInvoiceModal: entries, append, submit and another   *)
(*               session; the user waits while a submit is in flight       *)
(*   SpecPayment CreateInvoiceModal: the payment inputs on append, for     *)
(*               company 1; the user waits while a submit is in flight     *)
(*   SpecSubmit  CreateInvoiceModal: a submit that fails or succeeds, in   *)
(*               both versions of the modal                                *)
(*   SpecAppend  CreateInvoiceModal: append to an invoice computed with    *)
(*               additional charges, another rate or GST off               *)
(***************************************************************************)
EXTENDS Integers, Sequences, FiniteSets, TLC

VARIABLES
    inwardEntries,   \* rows of the inward_entries table
    nextId,          \* next row id; also the creation clock (createdAt)
    lastCall,        \* the service call that produced this state, with its outcome
    inFlight,        \* createEntry requests between their awaits, per concurrent request
    pageTable,       \* getAllEntries: the rows of the table that is queried
    pageQuery,       \* getAllEntries: the options of the last call
    pageResult,      \* getAllEntries: what the last call returned
    ctlReq,          \* controllers: the request just handled, with what the service did
    ctlRes,          \* controllers: the responses sent on that request's res
    ctlNext,         \* controllers: the errors passed to next() for that request
    routeReq,        \* routers: the request being dispatched and its position in the route's stack
    routeRan,        \* routers: the layers of the stack that ran for it, with their outcome
    modalVersion,    \* which CreateInvoiceModal is mounted: "append" (newer) or "plain"
    preselectedEntryIds, \* modal prop
    isOpen,          \* modal prop: the page shows the modal
    formData,        \* modal state: the form
    isPaymentReceived,
    paymentAmount,
    paymentDate,
    isAmountManuallyEdited,
    isSubmitting,
    existingInvoice, \* modal state: id of the append candidate, 0 for null
    isAppendMode,
    showAppendAlert,
    inwardEntriesData, \* react-query data of the entries query for the current key
    settings,        \* react-query data of the settings query
    dbInvoices,      \* server: the invoices table
    dbEntries,       \* server: the inward entries table
    pendingChecks,   \* existing-invoice checks in flight, per company
    pendingAppend,   \* getInvoiceById of handleAppendConfirm in flight (invoice id, 0 none)
    pendingSubmit,   \* create / update request of handleSubmit in flight
    history          \* what the user and the modal did so far (for the properties)

inwardVars == <<inwardEntries, nextId, lastCall, inFlight>>
pageVars == <<pageTable, pageQuery, pageResult>>
routeVars == <<routeReq, routeRan>>
ctlVars == <<ctlReq, ctlRes, ctlNext, routeVars>>
paymentVars == <<isPaymentReceived, paymentAmount, paymentDate, isAmountManuallyEdited>>
appendVars == <<existingInvoice, isAppendMode, showAppendAlert>>
serverVars == <<dbInvoices, dbEntries>>
requestVars == <<pendingChecks, pendingAppend, pendingSubmit>>
modalVars ==
    <<modalVersion, preselectedEntryIds, isOpen, formData, paymentVars, isSubmitting,
      appendVars, inwardEntriesData, settings, serverVars, requestVars, history>>

vars ==
    <<inwardEntries, nextId, lastCall, inFlight, pageTable, pageQuery, pageResult,
      ctlReq, ctlRes, ctlNext, routeVars, modalVars>>

(***************************************************************************)
(* Bounds                                                                  *)
(***************************************************************************)
\* Rows ever created in the inward_entries table.
MaxEntries == 2

\* Rows of the table getAllEntries is asked about.
MaxRows == 4

\* Materials in a company's price list, as the companies service returns it.
MaxMaterials == 2

\* Existing-invoice checks of the modal in flight.
MaxPending == 2

\* Material lines in the modal's form.
MaxLines == 3

\* Edits of the existing invoice by another session.
MaxOtherEdits == 1

\* createEntry requests the server handles at the same time.
MaxConcurrent == 2

(***************************************************************************)
(* Strings.  A lot number is text; it is modelled as a sequence of tokens  *)
(* so that String.prototype.trim has something to remove.                  *)
(***************************************************************************)
\* one whitespace character
SP == [t |-> "sp", n |-> 0]

\* a caller-chosen text without whitespace; n names it
Custom(k) == [t |-> "c", n |-> k]

\* the text `LOT-${year}${month}-${String(k).padStart(4, '0')}`
Gen(k) == [t |-> "g", n |-> k]

\* the JavaScript values undefined and null, where a lot number is expected
UNDEF == <<[t |-> "undefined", n |-> 0]>>
NULL == <<[t |-> "null", n |-> 0]>>

\* JavaScript truthiness of a lot number value: undefined, null and '' are falsy
Truthy(s) == s # UNDEF /\ s # NULL /\ s # <<>>

RECURSIVE trimStart(_)
trimStart(s) == IF s # <<>> /\ Head(s) = SP THEN trimStart(Tail(s)) ELSE s

RECURSIVE trimEnd(_)
trimEnd(s) ==
    IF s # <<>> /\ s[Len(s)] = SP THEN trimEnd(SubSeq(s, 1, Len(s) - 1)) ELSE s

\* String.prototype.trim
trim(s) == trimEnd(trimStart(s))

\* `x?.trim() || null` of updateEntry
trimOrNull(s) == IF s = NULL \/ trim(s) = <<>> THEN NULL ELSE trim(s)

(***************************************************************************)
(* Inward service: inputs                                                  *)
(***************************************************************************)
RequiredFields == {"date", "companyId", "manifestNo", "wasteName", "quantity", "unit"}

\* The required fields a request body carries: all of them, or all but one.
FieldChoices == {RequiredFields} \cup {RequiredFields \ {f} : f \in RequiredFields}

\* companies table: company 1 exists, company 9 does not
Companies == {1}
CompanyIds == {1, 9}

CustomNames == {1, 2}

\* numbers NNNN of the lot numbers of the form LOT-YYYYMM-NNNN a caller may send
GenNumbers == {1, 2}

\* lot numbers a caller may send
LotInputs ==
    {<<>>, <<SP>>}
        \cup {<<Custom(k)>> : k \in CustomNames}
        \cup {<<SP, Custom(1)>>, <<Custom(1), SP>>}
        \cup {<<Gen(k)>> : k \in GenNumbers}

\* srNo values a caller may send; 0 stands for "not sent" (and is falsy anyway)
SrNoInputs == {0, 5}

EntryIds == 1..(MaxEntries + 1)

(***************************************************************************)
(* Inward service: queries                                                 *)
(***************************************************************************)
Max(S) == CHOOSE x \in S : \A y \in S : y <= x

\* prisma.inwardEntry.findFirst({orderBy: {srNo: 'desc'}}); lastEntry?.srNo ? +1 : 1
getNextSrNo(es) ==
    IF es = {} THEN 1
    ELSE LET last == Max({e.srNo : e \in es}) IN IF last # 0 THEN last + 1 ELSE 1

\* lotNo: { startsWith: `LOT-${year}${month}` }
startsWithLotPrefix(s) == s # NULL /\ s # <<>> /\ Head(s).t = "g"

\* parseInt(lotNo.split('-').pop()) || 0
parseLastNum(s) == Head(s).n

\* InwardService.generateLotNo
generateLotNo(es) ==
    LET matching == {e \in es : startsWithLotPrefix(e.lotNo)} IN
    IF matching = {} THEN <<Gen(1)>>
    ELSE LET lastEntry ==
                 CHOOSE e \in matching : \A o \in matching : o.createdAt <= e.createdAt
         IN <<Gen(parseLastNum(lastEntry.lotNo) + 1)>>

\* prisma.inwardEntry.findUnique({where: {lotNo}}): the rows with exactly this text
findUniqueByLotNo(es, lot) == {e \in es : e.lotNo = lot}

\* a mutant of findFirstOtherByLotNo: not excluding anything, finding nothing
findFirstOtherNone(es, lot, entryId) == {}

\* prisma.inwardEntry.findFirst({where: {lotNo, id: {not: entryId}}})
findFirstOtherByLotNo(es, lot, entryId) == {e \in es : e.lotNo = lot /\ e.id # entryId}

\* prisma.inwardEntry.findUnique({where: {id}})
getEntryById(es, entryId) == {e \in es : e.id = entryId}

(***************************************************************************)
(* Inward service: outcomes                                                *)
(***************************************************************************)
Ok == [kind |-> "ok", message |-> ""]
RequiredError ==
    [kind |-> "ValidationError",
     message |-> "Date, company, manifest number, waste name, quantity, and unit are required"]
LotExistsError == [kind |-> "ValidationError", message |-> "Lot number already exists"]
CompanyNotFound == [kind |-> "NotFoundError", message |-> "Company"]
EntryNotFound == [kind |-> "NotFoundError", message |-> "Inward entry"]

NoCall ==
    [op |-> "none", present |-> {}, companyId |-> 0, lotNo |-> UNDEF, entryId |-> 0,
     outcome |-> Ok]

\* the inward service before any call
\* a request slot of the server with no createEntry running in it
NoFlight == [pc |-> "idle", data |-> NoCall, srNo |-> 0, finalLotNo |-> UNDEF]

InwardIdle ==
    /\ inwardEntries = {}
    /\ nextId = 1
    /\ lastCall = NoCall
    /\ inFlight = [r \in 1..MaxConcurrent |-> NoFlight]

(***************************************************************************)
(* Inward service: operations                                              *)
(***************************************************************************)
\* a mutant of createOutcome: the company is looked up before the fields are checked
createOutcomeCompanyFirst(es, data) ==
    IF data.companyId \notin Companies THEN CompanyNotFound
    ELSE IF \E f \in RequiredFields : f \notin data.present THEN RequiredError
    ELSE Ok

\* The outcome of createEntry on table es, before anything is written.
createOutcome(es, data) ==
    IF \E f \in RequiredFields : f \notin data.present THEN RequiredError
    ELSE IF data.companyId \notin Companies THEN CompanyNotFound
    ELSE LET finalLotNo == IF Truthy(data.lotNo) THEN data.lotNo ELSE generateLotNo(es)
         IN IF Truthy(finalLotNo) /\ findUniqueByLotNo(es, finalLotNo) # {}
            THEN LotExistsError
            ELSE Ok

\* The row createEntry writes.
createdRow(es, data, id) ==
    [id |-> id,
     srNo |-> IF data.srNo # 0 THEN data.srNo ELSE getNextSrNo(es),
     lotNo |-> IF Truthy(data.lotNo) THEN data.lotNo ELSE generateLotNo(es),
     companyId |-> data.companyId,
     createdAt |-> id]

\* InwardService.createEntry
createEntry(data) ==
    /\ nextId <= MaxEntries
    /\ LET outcome == createOutcome(inwardEntries, data) IN
       /\ lastCall' = [op |-> "createEntry", present |-> data.present,
                       companyId |-> data.companyId, lotNo |-> data.lotNo,
                       entryId |-> 0, outcome |-> outcome]
       /\ IF outcome = Ok
          THEN /\ inwardEntries' =
                      inwardEntries \cup {createdRow(inwardEntries, data, nextId)}
               /\ nextId' = nextId + 1
          ELSE UNCHANGED <<inwardEntries, nextId>>

(***************************************************************************)
(* Inward service: createEntry requests running at the same time.  Each    *)
(* await of createEntry is a point where the other request may run.        *)
(***************************************************************************)
\* the call as lastCall records it
createCall(data, outcome) ==
    [op |-> "createEntry", present |-> data.present, companyId |-> data.companyId,
     lotNo |-> data.lotNo, entryId |-> 0, outcome |-> outcome]

\* request r starts: the required fields are checked, then the company is awaited
createEntryStarts(r, data) ==
    /\ inFlight[r].pc = "idle"
    /\ nextId + Cardinality({q \in DOMAIN inFlight : inFlight[q].pc # "idle"}) <= MaxEntries
    /\ IF \E f \in RequiredFields : f \notin data.present
       THEN /\ lastCall' = createCall(data, RequiredError)
            /\ UNCHANGED inFlight
       ELSE /\ inFlight' = [inFlight EXCEPT ![r] = [NoFlight EXCEPT !.pc = "company", !.data = data]]
            /\ UNCHANGED lastCall
    /\ UNCHANGED <<inwardEntries, nextId>>

\* the await request r is waiting at resolves, and r runs up to its next await
createEntryResumes(r) ==
    LET f == inFlight[r]
        goes(pc) == /\ inFlight' = [inFlight EXCEPT ![r].pc = pc]
                    /\ UNCHANGED <<inwardEntries, nextId, lastCall>>
        fails(outcome) == /\ inFlight' = [inFlight EXCEPT ![r] = NoFlight]
                          /\ lastCall' = createCall(f.data, outcome)
                          /\ UNCHANGED <<inwardEntries, nextId>>
    IN  CASE f.pc = "company" ->
                \* prisma.company.findUnique
                IF f.data.companyId \notin Companies THEN fails(CompanyNotFound)
                ELSE goes("srNo")
          [] f.pc = "srNo" ->
                \* entryData.srNo || (await this.getNextSrNo())
                /\ inFlight' = [inFlight EXCEPT
                       ![r].pc = "lotNo",
                       ![r].srNo = IF f.data.srNo # 0 THEN f.data.srNo
                                   ELSE getNextSrNo(inwardEntries)]
                /\ UNCHANGED <<inwardEntries, nextId, lastCall>>
          [] f.pc = "lotNo" ->
                \* lotNo || (await this.generateLotNo())
                /\ inFlight' = [inFlight EXCEPT
                       ![r].pc = "check",
                       ![r].finalLotNo = IF Truthy(f.data.lotNo) THEN f.data.lotNo
                                         ELSE generateLotNo(inwardEntries)]
                /\ UNCHANGED <<inwardEntries, nextId, lastCall>>
          [] f.pc = "check" ->
                \* prisma.inwardEntry.findUnique({where: {lotNo: finalLotNo}})
                IF Truthy(f.finalLotNo) /\ findUniqueByLotNo(inwardEntries, f.finalLotNo) # {}
                THEN fails(LotExistsError)
                ELSE goes("create")
          [] f.pc = "create" ->
                \* prisma.inwardEntry.create
                /\ inwardEntries' = inwardEntries \cup
                       {[id |-> nextId, srNo |-> f.srNo, lotNo |-> f.finalLotNo,
                         companyId |-> f.data.companyId, createdAt |-> nextId]}
                /\ nextId' = nextId + 1
                /\ inFlight' = [inFlight EXCEPT ![r] = NoFlight]
                /\ lastCall' = createCall(f.data, Ok)
          [] OTHER -> FALSE

\* The outcome of updateEntry, before anything is written.
updateOutcome(es, entryId, lotNo) ==
    IF getEntryById(es, entryId) = {} THEN EntryNotFound
    ELSE IF Truthy(lotNo) /\ findFirstOtherByLotNo(es, lotNo, entryId) # {}
    THEN LotExistsError
    ELSE Ok

\* The table after prisma.inwardEntry.update: lotNo is written trimmed
updatedRows(es, entryId, lotNo) ==
    {IF e.id = entryId /\ lotNo # UNDEF
         THEN [e EXCEPT !.lotNo = trimOrNull(lotNo)]
         ELSE e : e \in es}

\* InwardService.updateEntry (of the updatable columns only lotNo is modelled)
updateEntry(entryId, lotNo) ==
    LET outcome == updateOutcome(inwardEntries, entryId, lotNo) IN
    /\ lastCall' = [op |-> "updateEntry", present |-> {}, companyId |-> 0,
                    lotNo |-> lotNo, entryId |-> entryId, outcome |-> outcome]
    /\ inwardEntries' =
           IF outcome = Ok THEN updatedRows(inwardEntries, entryId, lotNo)
           ELSE inwardEntries
    /\ UNCHANGED nextId

\* InwardService.deleteEntry
deleteEntry(entryId) ==
    LET found == getEntryById(inwardEntries, entryId) IN
    /\ lastCall' = [op |-> "deleteEntry", present |-> {}, companyId |-> 0,
                    lotNo |-> UNDEF, entryId |-> entryId,
                    outcome |-> IF found = {} THEN EntryNotFound ELSE Ok]
    /\ inwardEntries' = inwardEntries \ found
    /\ UNCHANGED nextId

(***************************************************************************)
(* Inward service: getAllEntries                                           *)
(***************************************************************************)
\* A numeric query parameter arrives as text: a sequence of decimal digits.
\* Absent stands for a parameter that was not sent (undefined).
Absent == <<>>

\* parseInt / Number of a text of decimal digits
RECURSIVE parseInt(_)
parseInt(s) ==
    IF s = <<>> THEN 0 ELSE 10 * parseInt(SubSeq(s, 1, Len(s) - 1)) + s[Len(s)]

\* the defaults of the destructured options
DefaultPage == <<1>>
DefaultLimit == <<2, 0>>

\* Math.ceil(n / d) for integers n >= 0, d >= 1, rounding down instead
floorDiv(n, d) == n \div d

\* Math.ceil(n / d) for integers n >= 0, d >= 1
ceilDiv(n, d) == IF n % d = 0 THEN n \div d ELSE (n \div d) + 1

\* the pool the queried table is drawn from: row i
PoolRow(i) ==
    [id |-> i, companyId |-> 1 + (i % 2), date |-> i, manifestNo |-> 1 + (i \div 3)]

\* `contains` of a search text in a column; texts are atomic names, 0 is ''
contains(text, search) == text = search

\* the where clause built from search, companyId, startDate and endDate
matchesWhere(row, q) ==
    /\ (q.search # 0 => contains(row.manifestNo, q.search))
    /\ (q.companyId # 0 => row.companyId = q.companyId)
    /\ (q.startDate # 0 => row.date >= q.startDate)
    /\ (q.endDate # 0 => row.date <= q.endDate)

\* the matching rows in the order of orderBy: {date: sortOrder}
RECURSIVE sortedRows(_, _)
sortedRows(rows, sortOrder) ==
    IF rows = {} THEN <<>>
    ELSE LET first ==
                 CHOOSE r \in rows :
                     \A o \in rows :
                         IF sortOrder = "desc" THEN o.date <= r.date ELSE r.date <= o.date
         IN <<first>> \o sortedRows(rows \ {first}, sortOrder)

\* findMany's skip and take
sliceRows(seq, skip, take) ==
    SubSeq(seq, skip + 1, IF skip + take < Len(seq) THEN skip + take ELSE Len(seq))

\* what getAllEntries returns for options q on table rows
getAllEntriesResult(rows, q) ==
    LET page == IF q.page = Absent THEN DefaultPage ELSE q.page
        limit == IF q.limit = Absent THEN DefaultLimit ELSE q.limit
        skip == (parseInt(page) - 1) * parseInt(limit)
        take == parseInt(limit)
        matching == {r \in rows : matchesWhere(r, q)}
        total == Cardinality(matching)
    IN [entries |-> sliceRows(sortedRows(matching, q.sortOrder), skip, take),
        pagination |->
            [page |-> parseInt(page),
             limit |-> take,
             total |-> total,
             totalPages |-> ceilDiv(total, take),
             hasNext |-> parseInt(page) * take < total,
             hasPrev |-> parseInt(page) > 1]]

\* InwardService.getAllEntries
getAllEntries(q) ==
    /\ pageQuery' = q
    /\ pageResult' = getAllEntriesResult(pageTable, q)
    /\ UNCHANGED pageTable

NoQuery ==
    [page |-> Absent, limit |-> Absent, search |-> 0, companyId |-> 0,
     startDate |-> 0, endDate |-> 0, sortOrder |-> "none"]

NoResult ==
    [entries |-> <<>>,
     pagination |-> [page |-> 0, limit |-> 0, total |-> 0, totalPages |-> 0,
                     hasNext |-> FALSE, hasPrev |-> FALSE]]

PageIdle ==
    /\ pageTable = {}
    /\ pageQuery = NoQuery
    /\ pageResult = NoResult

\* page and limit texts with a value >= 1
PageTexts == {Absent, <<2>>, <<0, 3>>}
LimitTexts == {Absent, <<1>>, <<2>>, <<0, 3>>}

\* startDate and endDate as sent together; 0 is ''
DateRanges == {<<0, 0>>, <<2, 0>>, <<2, 3>>}

PageQueries ==
    {[page |-> p, limit |-> l, search |-> s, companyId |-> c,
      startDate |-> d[1], endDate |-> d[2], sortOrder |-> o] :
        p \in PageTexts, l \in LimitTexts, s \in {0, 1}, c \in {0, 1, 2},
        d \in DateRanges, o \in {"desc"}}
        \cup {[page |-> p, limit |-> <<2>>, search |-> 0, companyId |-> 0,
               startDate |-> 0, endDate |-> 0, sortOrder |-> "asc"] : p \in PageTexts}

(***************************************************************************)
(* Controllers.  A handler runs on a fresh (req, res, next): it awaits the *)
(* service, then either sends one response or passes the error to next().  *)
(* What the service does is an input: it returns a value or throws.        *)
(***************************************************************************)
Roles == {"admin", "user", "none"}

ServiceErrors == {"ValidationError", "NotFoundError", "Error"}

\* a material of a company's price list
Material(i, r) == [id |-> i, materialName |-> i, rate |-> r]

MaterialValues == {Material(i, r) : i \in 1..MaxMaterials, r \in {10, 20}}

\* price lists: no material, one material, or materials 1..MaxMaterials
MaterialLists ==
    {<<>>} \cup {<<m>> : m \in MaterialValues}
        \cup {[i \in 1..MaxMaterials |-> Material(i, r)] : r \in {10, 20}}

\* a company as the service returns it, with or without its materials loaded
CompanyValues ==
    {[id |-> 1, name |-> "c", materials |-> ms] : ms \in MaterialLists}
        \cup {[id |-> 1, name |-> "c"]}

EntryValues == {[id |-> i, lotNo |-> i] : i \in {1, 2}}

StatsValues == {[total |-> n] : n \in {0, 3}}

PaginationValues == {[page |-> 1, limit |-> 20, total |-> n, totalPages |-> 1] : n \in {1, 2}}

\* the body has no data member
NoData == [none |-> TRUE]

NoPagination == [page |-> 0, limit |-> 0, total |-> 0, totalPages |-> 0]

\* a mutant of withoutRate: the material unchanged
withRate(m) == m

\* `const { rate, ...rest } = m; return rest` and `delete material.rate`
withoutRate(m) == [f \in (DOMAIN m) \ {"rate"} |-> m[f]]

stripList(ms) == [i \in DOMAIN ms |-> withoutRate(ms[i])]

\* getAllCompanies / getCompanyById: a company's materials stripped of rate
stripCompany(role, company) ==
    IF role = "admin" \/ "materials" \notin DOMAIN company THEN company
    ELSE [company EXCEPT !.materials = stripList(company.materials)]

(***************************************************************************)
(* Routers.  A route is a method, a path and a stack of layers; express    *)
(* runs the layers of the matched route in their order, the next one when  *)
(* a layer calls next(), none when it responds or calls next(error).       *)
(***************************************************************************)
authenticate == [kind |-> "authenticate", arg |-> ""]
authorize(roles) == [kind |-> "authorize", arg |-> roles]
validate(schema) == [kind |-> "validate", arg |-> schema]

\* controller.method.bind(controller)
bind(method) == [kind |-> "handler", arg |-> method]

route(method, path, stack) == [method |-> method, path |-> path, stack |-> stack]

companiesRouter ==
    << route("get", "/", <<authenticate, bind("getAllCompanies")>>),
       route("get", "/stats/all", <<authenticate, bind("getGlobalStats")>>),
       route("get", "/:id", <<authenticate, bind("getCompanyById")>>),
       route("post", "/",
             <<authenticate, validate("createCompanySchema"), bind("createCompany")>>),
       route("put", "/:id",
             <<authenticate, validate("updateCompanySchema"), bind("updateCompany")>>),
       route("delete", "/:id", <<authenticate, bind("deleteCompany")>>),
       route("get", "/:id/materials", <<authenticate, bind("getCompanyMaterials")>>),
       route("post", "/:id/materials",
             <<authenticate, validate("addMaterialSchema"), bind("addMaterial")>>),
       route("put", "/:id/materials/:materialId",
             <<authenticate, validate("updateMaterialSchema"), bind("updateMaterial")>>),
       route("delete", "/:id/materials/:materialId",
             <<authenticate, bind("removeMaterial")>>),
       route("get", "/:id/stats", <<authenticate, bind("getCompanyStats")>>) >>

dashboardRouter ==
    << route("get", "/stats", <<authenticate, authorize("admin"), bind("getStats")>>),
       route("get", "/revenue",
             <<authenticate, authorize("admin"), bind("getRevenueChart")>>),
       route("get", "/payment-status",
             <<authenticate, authorize("admin"), bind("getPaymentStatus")>>),
       route("get", "/recent-activity",
             <<authenticate, authorize("admin"), bind("getRecentActivity")>>),
       route("get", "/waste-flow",
             <<authenticate, authorize("admin"), bind("getWasteFlow")>>) >>

invoicesRouter ==
    << route("get", "/", <<authenticate, authorize("admin"), bind("getAllInvoices")>>),
       route("get", "/stats", <<authenticate, authorize("admin"), bind("getStats")>>),
       route("get", "/:id", <<authenticate, authorize("admin"), bind("getInvoiceById")>>),
       route("post", "/",
             <<authenticate, authorize("admin"), validate("createInvoiceSchema"),
               bind("createInvoice")>>),
       route("put", "/:id",
             <<authenticate, authorize("admin"), validate("updateInvoiceSchema"),
               bind("updateInvoice")>>),
       route("put", "/:id/payment",
             <<authenticate, authorize("admin"), validate("updateInvoicePaymentSchema"),
               bind("updatePayment")>>),
       route("delete", "/:id",
             <<authenticate, authorize("admin"), bind("deleteInvoice")>>) >>

settingsRouter ==
    << route("get", "/", <<authenticate, authorize("admin"), bind("getAllSettings")>>),
       route("get", "/:key",
             <<authenticate, authorize("admin"), bind("getSettingByKey")>>),
       route("put", "/:key", <<authenticate, authorize("admin"), bind("updateSetting")>>),
       route("post", "/bulk",
             <<authenticate, authorize("admin"), bind("bulkUpdateSettings")>>),
       route("delete", "/:key",
             <<authenticate, authorize("admin"), bind("deleteSetting")>>) >>

inwardMaterialsRouter ==
    << route("get", "/", <<authenticate, bind("getAllMaterials")>>),
       route("get", "/:id", <<authenticate, bind("getMaterialById")>>),
       route("post", "/",
             <<authenticate, validate("createInwardMaterialSchema"),
               bind("createMaterial")>>),
       route("put", "/:id",
             <<authenticate, validate("updateInwardMaterialSchema"),
               bind("updateMaterial")>>),
       route("delete", "/:id", <<authenticate, bind("deleteMaterial")>>) >>

\* app.use(mount path, router)
Routers ==
    [companies |-> companiesRouter, dashboard |-> dashboardRouter,
     invoices |-> invoicesRouter, settings |-> settingsRouter,
     inwardMaterials |-> inwardMaterialsRouter]

NoRouteRequest == [router |-> "none", route |-> 0, pos |-> 0]

RouteIdle ==
    /\ routeReq = NoRouteRequest
    /\ routeRan = <<>>

\* a request arrives and matches route number i of a router
routeMatched(router, i) ==
    /\ routeReq.pos = 0
    /\ routeReq' = [router |-> router, route |-> i, pos |-> 1]
    /\ routeRan' = <<>>

\* a mutant of routeLayerRuns: the next layer runs whether or not next() was called
routeLayerRunsAnyway(callsNext) ==
    /\ routeReq.pos > 0
    /\ LET stack == Routers[routeReq.router][routeReq.route].stack
           layer == stack[routeReq.pos]
       IN  /\ routeRan' = Append(routeRan, [layer |-> layer,
                                            calledNext |-> callsNext /\ layer.kind # "handler"])
           /\ routeReq' = [routeReq EXCEPT !.pos = IF layer.kind # "handler" THEN @ + 1 ELSE 0]

\* the layer at the request's position runs; a middleware calls next() or ends
\* the request, the handler ends it
routeLayerRuns(callsNext) ==
    /\ routeReq.pos > 0
    /\ LET stack == Routers[routeReq.router][routeReq.route].stack
           layer == stack[routeReq.pos]
           goesOn == callsNext /\ layer.kind # "handler"
       IN  /\ routeRan' = Append(routeRan, [layer |-> layer, calledNext |-> goesOn])
           /\ routeReq' = [routeReq EXCEPT !.pos = IF goesOn THEN @ + 1 ELSE 0]

returned(v) == [threw |-> FALSE, value |-> v, error |-> "none"]
threw(e) == [threw |-> TRUE, value |-> NoData, error |-> e]

NoRequest == [controller |-> "none", op |-> "none", role |-> "none",
              svc |-> threw("none"), logThrows |-> FALSE]

CtlIdle ==
    /\ ctlReq = NoRequest
    /\ ctlRes = <<>>
    /\ ctlNext = <<>>
    /\ RouteIdle

\* res.status(status).json({success: true, data, pagination, message})
json(status, data, pagination, message) ==
    [status |-> status, success |-> TRUE, data |-> data, pagination |-> pagination,
     message |-> message]

\* a mutant of handled: a throwing debug log leaves the catch block before next(error)
handledUnlessLogThrows(controller, op, role, svc, logThrows, response) ==
    /\ ctlReq' = [controller |-> controller, op |-> op, role |-> role, svc |-> svc,
                  logThrows |-> logThrows]
    /\ ctlRes' = IF svc.threw THEN <<>> ELSE <<response>>
    /\ ctlNext' = IF svc.threw /\ ~logThrows THEN <<svc.error>> ELSE <<>>

\* the try block ran to its res.status().json(); or the catch block called next(error)
handled(controller, op, role, svc, logThrows, response) ==
    /\ ctlReq' = [controller |-> controller, op |-> op, role |-> role, svc |-> svc,
                  logThrows |-> logThrows]
    /\ ctlRes' = IF svc.threw THEN <<>> ELSE <<response>>
    /\ ctlNext' = IF svc.threw THEN <<svc.error>> ELSE <<>>

Outcomes(values) == {returned(v) : v \in values} \cup {threw(e) : e \in ServiceErrors}

\* InwardController.getAllEntries
ctlGetAllEntries(role, svc) ==
    handled("inward", "getAllEntries", role, svc, FALSE,
            json(200, svc.value.entries, svc.value.pagination,
                 "Inward entries retrieved successfully"))

\* InwardController.getEntryById
ctlGetEntryById(role, svc) ==
    handled("inward", "getEntryById", role, svc, FALSE,
            json(200, [entry |-> svc.value], NoPagination,
                 "Inward entry retrieved successfully"))

\* a mutant of createEntryStatus: the status of the other handlers
createEntryStatusOk == 200

\* the status InwardController.createEntry responds with
createEntryStatus == 201

\* InwardController.createEntry; the catch block's debug log may itself throw
ctlCreateEntry(role, svc, logThrows) ==
    handled("inward", "createEntry", role, svc, logThrows,
            json(createEntryStatus, [entry |-> svc.value], NoPagination,
                 "Inward entry created successfully"))

\* InwardController.updateEntry
ctlUpdateEntry(role, svc) ==
    handled("inward", "updateEntry", role, svc, FALSE,
            json(200, [entry |-> svc.value], NoPagination,
                 "Inward entry updated successfully"))

\* InwardController.deleteEntry
ctlDeleteEntry(role, svc) ==
    handled("inward", "deleteEntry", role, svc, FALSE,
            json(200, NoData, NoPagination, "Inward entry deleted successfully"))

\* InwardController.updatePayment
ctlUpdatePayment(role, svc) ==
    handled("inward", "updatePayment", role, svc, FALSE,
            json(200, [entry |-> svc.value], NoPagination, "Payment updated successfully"))

\* InwardController.getStats
ctlGetStats(role, svc) ==
    handled("inward", "getStats", role, svc, FALSE,
            json(200, [stats |-> svc.value], NoPagination,
                 "Statistics retrieved successfully"))

\* CompaniesController.getAllCompanies
ctlGetAllCompanies(role, svc) ==
    handled("companies", "getAllCompanies", role, svc, FALSE,
            json(200,
                 [i \in DOMAIN svc.value.companies |->
                     stripCompany(role, svc.value.companies[i])],
                 svc.value.pagination, "Companies retrieved successfully"))

\* CompaniesController.getCompanyById
ctlGetCompanyById(role, svc) ==
    handled("companies", "getCompanyById", role, svc, FALSE,
            json(200, [company |-> stripCompany(role, svc.value)], NoPagination,
                 "Company retrieved successfully"))

\* CompaniesController.createCompany
ctlCreateCompany(role, svc) ==
    handled("companies", "createCompany", role, svc, FALSE,
            json(201, [company |-> svc.value], NoPagination,
                 "Company created successfully"))

\* CompaniesController.updateCompany
ctlUpdateCompany(role, svc) ==
    handled("companies", "updateCompany", role, svc, FALSE,
            json(200, [company |-> svc.value], NoPagination,
                 "Company updated successfully"))

\* CompaniesController.deleteCompany
ctlDeleteCompany(role, svc) ==
    handled("companies", "deleteCompany", role, svc, FALSE,
            json(200, NoData, NoPagination, "Company deleted successfully"))

\* CompaniesController.getCompanyMaterials
ctlGetCompanyMaterials(role, svc) ==
    handled("companies", "getCompanyMaterials", role, svc, FALSE,
            json(200,
                 [materials |->
                     [i \in DOMAIN svc.value |->
                         IF role = "admin" THEN svc.value[i] ELSE withoutRate(svc.value[i])]],
                 NoPagination, "Materials retrieved successfully"))

\* CompaniesController.addMaterial
ctlAddMaterial(role, svc) ==
    handled("companies", "addMaterial", role, svc, FALSE,
            json(201,
                 [material |-> IF role # "admin" THEN withoutRate(svc.value) ELSE svc.value],
                 NoPagination, "Material added successfully"))

\* CompaniesController.updateMaterial
ctlUpdateMaterial(role, svc) ==
    handled("companies", "updateMaterial", role, svc, FALSE,
            json(200,
                 [material |-> IF role # "admin" THEN withoutRate(svc.value) ELSE svc.value],
                 NoPagination, "Material updated successfully"))

\* CompaniesController.removeMaterial
ctlRemoveMaterial(role, svc) ==
    handled("companies", "removeMaterial", role, svc, FALSE,
            json(200, NoData, NoPagination, "Material removed successfully"))

\* CompaniesController.getCompanyStats
ctlGetCompanyStats(role, svc) ==
    handled("companies", "getCompanyStats", role, svc, FALSE,
            json(200, [stats |-> svc.value], NoPagination,
                 "Statistics retrieved successfully"))

\* CompaniesController.getGlobalStats
ctlGetGlobalStats(role, svc) ==
    handled("companies", "getGlobalStats", role, svc, FALSE,
            json(200, [stats |-> svc.value], NoPagination,
                 "Global statistics retrieved successfully"))

EntryPages ==
    {[entries |-> es, pagination |-> p] :
        es \in {<<>>} \cup {<<e>> : e \in EntryValues}, p \in PaginationValues}

CompanyPages ==
    {[companies |-> cs, pagination |-> p] :
        cs \in {<<>>} \cup {<<c>> : c \in CompanyValues}, p \in PaginationValues}

(***************************************************************************)
(* CreateInvoiceModal: numbers                                             *)
(*                                                                         *)
(* Quantities, rates per unit, amounts, the manual subtotal and the        *)
(* additional charges are whole numbers; tax rates, taxes, totals and      *)
(* payment amounts are exact fractions [n, d] in lowest terms.  The        *)
(* rounding error of the floating point arithmetic is not modelled.        *)
(***************************************************************************)
RECURSIVE gcd(_, _)
gcd(a, b) == IF b = 0 THEN a ELSE gcd(b, a % b)

Q(n, d) == LET g == gcd(n, d) IN [n |-> n \div g, d |-> d \div g]

Num(k) == [n |-> k, d |-> 1]

add(a, b) == Q(a.n * b.d + b.n * a.d, a.d * b.d)

mul(a, b) == Q(a.n * b.n, a.d * b.d)

\* a / b for b > 0
div(a, b) == Q(a.n * b.d, a.d * b.n)

\* an optional number that is undefined
undefined == [n |-> 0, d |-> 0]

\* parseFloat(x.toFixed(2)): rounded to two decimals
toFixed2(a) == Q((200 * a.n + a.d) \div (2 * a.d), 100)

\* parseFloat(value || '9') of a setting's value, a text of decimal digits
parseFloatOr9(text) == IF text = <<>> THEN Num(9) ELSE Num(parseInt(text))

(***************************************************************************)
(* CreateInvoiceModal: the form and its totals                             *)
(***************************************************************************)
\* a line of formData.materials
Line(materialName, manifestNo, quantity, rate) ==
    [materialName |-> materialName, manifestNo |-> manifestNo,
     quantity |-> quantity, rate |-> rate, amount |-> quantity * rate]

\* useState initial value of formData; companyId 0 is '', applyGst is
\* "true", "false" or (after the reset of handleSubmit) "undefined"
initialFormData(preselected) ==
    [companyId |-> 0, materials |-> <<>>, manifestNos |-> <<>>,
     inwardEntryIds |-> preselected, subtotal |-> 0,
     cgstRate |-> undefined, sgstRate |-> undefined,
     additionalCharges |-> 0, applyGst |-> "true"]

RECURSIVE sumAmounts(_)
sumAmounts(materials) ==
    IF materials = <<>> THEN 0
    ELSE Head(materials).amount + sumAmounts(Tail(materials))

\* materials.reduce(...) || formData.subtotal
subtotalOf(fd) ==
    IF sumAmounts(fd.materials) # 0 THEN sumAmounts(fd.materials) ELSE fd.subtotal

chargesExcluded(version, fd) == subtotalOf(fd)

\* baseForTax = subtotal + additionalCharges; the plain modal has no charges
baseForTax(version, fd) ==
    IF version = "append" THEN subtotalOf(fd) + fd.additionalCharges ELSE subtotalOf(fd)

\* append modal: applyGst ? (rate !== undefined ? rate : 9) : 0
\* plain modal:  rate || 9
rateValue(version, applyGst, rate) ==
    IF version = "append"
    THEN IF applyGst = "true"
         THEN (IF rate # undefined THEN rate ELSE Num(9))
         ELSE Num(0)
    ELSE IF rate # undefined /\ rate.n # 0 THEN rate ELSE Num(9)

\* the totals computed on every render
totals(version, fd) ==
    LET base == Num(baseForTax(version, fd))
        cgstRateValue == rateValue(version, fd.applyGst, fd.cgstRate)
        sgstRateValue == rateValue(version, fd.applyGst, fd.sgstRate)
        cgst == div(mul(base, cgstRateValue), Num(100))
        sgst == div(mul(base, sgstRateValue), Num(100))
    IN  [subtotal |-> subtotalOf(fd),
         additionalCharges |-> IF version = "append" THEN fd.additionalCharges ELSE 0,
         cgstRateValue |-> cgstRateValue, sgstRateValue |-> sgstRateValue,
         cgst |-> cgst, sgst |-> sgst,
         grandTotal |-> add(add(base, cgst), sgst)]

grandTotal == totals(modalVersion, formData).grandTotal

(***************************************************************************)
(* CreateInvoiceModal: the server it talks to                              *)
(*                                                                         *)
(* The invoices service of the backend is not among the sources; the       *)
(* server side below (getInvoices, the create and the update of an         *)
(* invoice) follows the specification: an invoice holds its materials,     *)
(* manifests, totals and payment fields, an inward entry links to at most  *)
(* one invoice through its invoiceId, and nothing is versioned or locked.  *)
(***************************************************************************)
ModalCompanies == {1, 2}

\* dates are names: the day the modal is used, the day the existing invoice
\* was paid, a day the user picks; "null" is no date
Today == "today"

Entry(id, companyId, manifestNo, wasteName, quantity, rate, invoiceId) ==
    [id |-> id, companyId |-> companyId, manifestNo |-> manifestNo,
     wasteName |-> wasteName, quantity |-> quantity, rate |-> rate,
     invoiceId |-> invoiceId]

\* the line the entry checkbox adds for an entry
lineOf(entry) ==
    Line(entry.wasteName, entry.manifestNo, entry.quantity, entry.rate)

Invoice(id, companyId, status, materials, manifestNos, subtotal, additionalCharges, cgst, sgst, paymentReceived, paymentReceivedOn) ==
    [id |-> id, companyId |-> companyId, status |-> status,
     materials |-> materials, manifestNos |-> manifestNos,
     subtotal |-> subtotal, additionalCharges |-> additionalCharges,
     cgst |-> cgst, sgst |-> sgst,
     paymentReceived |-> paymentReceived, paymentReceivedOn |-> paymentReceivedOn]

\* Company 1 has entry 1 (invoiced on invoice 1) and entry 2 (not invoiced,
\* same manifest and waste as entry 1); company 2 has entry 3.
SeedEntries ==
    (1 :> Entry(1, 1, "M1", "W1", 2, 50, 1)) @@
    (2 :> Entry(2, 1, "M1", "W1", 1, 50, 0)) @@
    (3 :> Entry(3, 2, "M2", "W2", 3, 10, 0))

SeedInvoiceCount == 7

\* Invoice 1 of company 1 is partly paid.  Company 2 has invoices 2..7,
\* created in this order, all paid except possibly the oldest.
SeedInvoices(oldestStatus) ==
    [i \in 1..SeedInvoiceCount |->
        IF i = 1
        THEN Invoice(1, 1, "partial", <<lineOf(SeedEntries[1])>>, <<"M1">>, 100, 0,
                     Num(9), Num(9), Num(50), "paidOn")
        ELSE Invoice(i, 2, IF i = 2 THEN oldestStatus ELSE "paid", <<>>, <<>>, 100, 0,
                     Num(9), Num(9),
                     IF i = 2 /\ oldestStatus # "paid" THEN Num(0) ELSE Num(118),
                     IF i = 2 /\ oldestStatus # "paid" THEN "null" ELSE "paidOn")]

Range(seq) == {seq[i] : i \in DOMAIN seq}

\* a set of records with distinct ids as a sequence, by id
RECURSIVE byId(_, _)
byId(rows, descending) ==
    IF rows = {} THEN <<>>
    ELSE LET ids == {r.id : r \in rows}
             pick == IF descending THEN Max(ids)
                     ELSE CHOOSE x \in ids : \A y \in ids : x <= y
             row == CHOOSE r \in rows : r.id = pick
         IN  <<row>> \o byId(rows \ {row}, descending)

firstN(seq, n) == SubSeq(seq, 1, IF Len(seq) < n THEN Len(seq) ELSE n)

\* invoicesService.getInvoices({companyId, type: 'Inward', limit, sortOrder: 'desc'}):
\* the company's invoices, newest first, at most limit of them
getInvoices(invoices, companyId, limit) ==
    firstN(byId({invoices[i] : i \in {j \in DOMAIN invoices : invoices[j].companyId = companyId}},
                TRUE), limit)

\* inwardService.getEntries({limit: 100, companyId: companyId || undefined})
getEntries(entries, companyId) ==
    byId({entries[i] : i \in {j \in DOMAIN entries :
                                 companyId = 0 \/ entries[j].companyId = companyId}}, FALSE)

\* fullInvoice.inwardEntries: the entries linked to the invoice
linkedEntryIds(entries, invoiceId) ==
    LET rows == byId({entries[i] : i \in {j \in DOMAIN entries :
                                             entries[j].invoiceId = invoiceId}}, FALSE)
    IN  [k \in DOMAIN rows |-> rows[k].id]

(***************************************************************************)
(* CreateInvoiceModal: state                                               *)
(***************************************************************************)
\* react-query data of the entries query: undefined until the fetch for the
\* current key has arrived
Loading == [loaded |-> FALSE, entries |-> <<>>]

NoSettings == [loaded |-> FALSE, cgst |-> <<>>, sgst |-> <<>>]

NoInvoice == Invoice(0, 0, "none", <<>>, <<>>, 0, 0, Num(0), Num(0), Num(0), "null")

NoSubmit ==
    [kind |-> "none", id |-> 0, companyId |-> 0, materials |-> <<>>,
     manifestNos |-> <<>>, inwardEntryIds |-> <<>>, subtotal |-> 0,
     cgstRate |-> undefined, sgstRate |-> undefined, additionalCharges |-> 0,
     paymentReceived |-> Num(0), paymentReceivedOn |-> "null"]

\* fullInvoice: what handleAppendConfirm last merged into the form;
\* paymentTouched, materialsEdited: the user used the payment inputs /
\* changed or removed a material line by hand; otherEdits: edits of invoice
\* 1 by another session; overwritten: the invoice as the server held it when
\* an update request of the modal replaced it; submitFailed: a request of
\* handleSubmit was rejected (noted by the specification that asks for it)
NoHistory ==
    [fullInvoice |-> NoInvoice, fullInvoiceEntryIds |-> <<>>,
     paymentTouched |-> FALSE, materialsEdited |-> FALSE, otherEdits |-> 0,
     overwritten |-> NoInvoice, submitFailed |-> FALSE]

\* the state right after the modal is mounted
ModalMounted(version, preselected, invoices) ==
    /\ modalVersion = version
    /\ preselectedEntryIds = preselected
    /\ isOpen = TRUE
    /\ formData = initialFormData(preselected)
    /\ isPaymentReceived = FALSE
    /\ paymentAmount = Num(0)
    /\ paymentDate = Today
    /\ isAmountManuallyEdited = FALSE
    /\ isSubmitting = FALSE
    /\ existingInvoice = 0
    /\ isAppendMode = FALSE
    /\ showAppendAlert = FALSE
    /\ inwardEntriesData = Loading
    /\ settings = NoSettings
    /\ dbInvoices = invoices
    /\ dbEntries = SeedEntries
    /\ pendingChecks = [c \in ModalCompanies |-> 0]
    /\ pendingAppend = 0
    /\ pendingSubmit = NoSubmit
    /\ history = NoHistory

ModalIdle == ModalMounted("append", <<>>, SeedInvoices("paid"))

\* Sync payment amount with total if not manually edited: the effect runs
\* after a render in which one of its dependencies changed
syncPayment(fd2, received2, manual2, amount2) ==
    LET before == totals(modalVersion, formData).grandTotal
        after == totals(modalVersion, fd2).grandTotal
        changed == \/ after # before
                   \/ received2 # isPaymentReceived
                   \/ manual2 # isAmountManuallyEdited
    IN  IF modalVersion = "append" /\ changed /\ received2 /\ ~manual2
        THEN toFixed2(after)
        ELSE amount2

\* the state updates of one handler, batched into one render, and the
\* payment effect that follows the render
render(fd2, received2, manual2, amount2) ==
    /\ formData' = fd2
    /\ isPaymentReceived' = received2
    /\ isAmountManuallyEdited' = manual2
    /\ paymentAmount' = syncPayment(fd2, received2, manual2, amount2)

renderForm(fd2) ==
    render(fd2, isPaymentReceived, isAmountManuallyEdited, paymentAmount)

checksInFlight == pendingChecks[1] + pendingChecks[2]

\* Check for existing invoices when company changes: the effect starts a
\* check for a company, and clears the candidate when no company is selected
checkEffect(company2) ==
    IF modalVersion # "append" \/ company2 = formData.companyId
    THEN UNCHANGED <<existingInvoice, showAppendAlert, pendingChecks>>
    ELSE IF company2 # 0
         THEN /\ pendingChecks' = [pendingChecks EXCEPT ![company2] = @ + 1]
              /\ UNCHANGED <<existingInvoice, showAppendAlert>>
         ELSE /\ existingInvoice' = 0
              /\ showAppendAlert' = FALSE
              /\ UNCHANGED pendingChecks

\* the entries query is keyed by the company in the append modal only
entriesQuery(company2) ==
    inwardEntriesData' =
        IF modalVersion = "append" /\ company2 # formData.companyId
        THEN Loading ELSE inwardEntriesData

\* the first non-paid invoice of a page of invoices, 0 if none
RECURSIVE candidate(_)
candidate(invoices) ==
    IF invoices = <<>> THEN 0
    ELSE IF Head(invoices).status # "paid" THEN Head(invoices).id
    ELSE candidate(Tail(invoices))

\* [...new Set(seq)]
RECURSIVE unique(_)
unique(seq) ==
    IF seq = <<>> THEN <<>>
    ELSE LET front == unique(SubSeq(seq, 1, Len(seq) - 1))
         IN  IF seq[Len(seq)] \in Range(front) THEN front
             ELSE Append(front, seq[Len(seq)])

\* seq without the element at index
without(seq, index) ==
    SubSeq(seq, 1, index - 1) \o SubSeq(seq, index + 1, Len(seq))

\* seq.filter(x => x !== value)
filterOut(seq, value) == SelectSeq(seq, LAMBDA x : x # value)

\* materials.findIndex(m => m.manifestNo === ... && m.materialName === ...), 0 for -1
findIndex(materials, manifestNo, materialName) ==
    LET hits == {i \in DOMAIN materials :
                    /\ materials[i].manifestNo = manifestNo
                    /\ materials[i].materialName = materialName}
    IN  IF hits = {} THEN 0 ELSE CHOOSE i \in hits : \A j \in hits : i <= j

(***************************************************************************)
(* CreateInvoiceModal: the form's handlers                                 *)
(***************************************************************************)
\* Company select onChange; the append modal clears the selection of
\* entries and the select is disabled in append mode
selectCompany(c) ==
    /\ isOpen
    /\ ~(modalVersion = "append" /\ isAppendMode)
    /\ c # formData.companyId
    /\ c # 0 => checksInFlight < MaxPending
    /\ renderForm(IF modalVersion = "append"
                  THEN [formData EXCEPT !.companyId = c, !.inwardEntryIds = <<>>,
                                        !.materials = <<>>, !.manifestNos = <<>>,
                                        !.subtotal = 0]
                  ELSE [formData EXCEPT !.companyId = c])
    /\ checkEffect(c)
    /\ entriesQuery(c)
    /\ history' = IF modalVersion = "append"
                  THEN [history EXCEPT !.fullInvoice = NoInvoice,
                                       !.fullInvoiceEntryIds = <<>>,
                                       !.materialsEdited = FALSE]
                  ELSE history
    /\ UNCHANGED <<modalVersion, preselectedEntryIds, isOpen, paymentDate, isSubmitting,
                   isAppendMode, settings, serverVars, pendingAppend, pendingSubmit>>

\* The entries query resolves; then Auto-populate preselected entries runs
EntriesLoaded ==
    /\ isOpen
    /\ ~inwardEntriesData.loaded
    /\ LET data == getEntries(dbEntries,
                              IF modalVersion = "append" THEN formData.companyId ELSE 0)
           entries == SelectSeq(data, LAMBDA e : e.id \in Range(preselectedEntryIds))
           fd2 == IF Len(preselectedEntryIds) > 0 /\ Len(entries) > 0
                  THEN [formData EXCEPT
                           !.companyId = entries[1].companyId,
                           !.manifestNos = [k \in DOMAIN entries |-> entries[k].manifestNo],
                           !.inwardEntryIds = preselectedEntryIds]
                  ELSE formData
       IN  /\ fd2.companyId # formData.companyId => checksInFlight < MaxPending
           /\ renderForm(fd2)
           /\ checkEffect(fd2.companyId)
           /\ inwardEntriesData' =
                  IF modalVersion = "append" /\ fd2.companyId # formData.companyId
                  THEN Loading
                  ELSE [loaded |-> TRUE, entries |-> data]
    /\ UNCHANGED <<modalVersion, preselectedEntryIds, isOpen, paymentDate, isSubmitting,
                   isAppendMode, settings, serverVars, pendingAppend, pendingSubmit,
                   history>>

\* Link Inward Entries: the checkbox of an entry of the held list
toggleEntry(id) ==
    /\ isOpen
    /\ inwardEntriesData.loaded
    /\ \E k \in DOMAIN inwardEntriesData.entries :
        LET entry == inwardEntriesData.entries[k]
            isInvoiced == entry.invoiceId # 0
            isLinkedToCurrent ==
                isAppendMode /\ existingInvoice # 0 /\ entry.invoiceId = existingInvoice
            isSelected == entry.id \in Range(formData.inwardEntryIds)
            isDisabled == isInvoiced /\ ~isLinkedToCurrent
            shown == IF modalVersion = "append"
                     THEN formData.companyId # 0 /\ ~isDisabled
                     ELSE ~isInvoiced
            matIndex == findIndex(formData.materials, entry.manifestNo, entry.wasteName)
            spliced == IF matIndex # 0 THEN without(formData.materials, matIndex)
                       ELSE formData.materials
            isManifestUsed == \E i \in DOMAIN spliced : spliced[i].manifestNo = entry.manifestNo
        IN  /\ entry.id = id
            /\ shown
            /\ ~isSelected => Len(formData.materials) < MaxLines
            /\ renderForm(
                 IF ~isSelected
                 THEN [formData EXCEPT
                          !.inwardEntryIds = Append(@, entry.id),
                          !.materials = Append(@, lineOf(entry)),
                          !.manifestNos = IF entry.manifestNo \in Range(@) THEN @
                                          ELSE Append(@, entry.manifestNo)]
                 ELSE [formData EXCEPT
                          !.inwardEntryIds = filterOut(@, entry.id),
                          !.materials = spliced,
                          !.manifestNos = IF isManifestUsed THEN @
                                          ELSE filterOut(@, entry.manifestNo)])
            /\ history' = IF isSelected /\ entry.id \in Range(history.fullInvoiceEntryIds)
                          THEN [history EXCEPT !.materialsEdited = TRUE]
                          ELSE history
    /\ UNCHANGED <<modalVersion, preselectedEntryIds, isOpen, paymentDate, isSubmitting,
                   appendVars, inwardEntriesData, settings, serverVars, requestVars>>

removeMaterial(index) ==
    /\ isOpen
    /\ index \in DOMAIN formData.materials
    /\ renderForm([formData EXCEPT !.materials = without(@, index)])
    /\ history' = [history EXCEPT !.materialsEdited = TRUE]
    /\ UNCHANGED <<modalVersion, preselectedEntryIds, isOpen, paymentDate, isSubmitting,
                   appendVars, inwardEntriesData, settings, serverVars, requestVars>>

\* the quantity and rate inputs of a material line: amount = qty * rate
updateMaterial(index, field, value) ==
    /\ isOpen
    /\ index \in DOMAIN formData.materials
    /\ field \in {"quantity", "rate"}
    /\ formData.materials[index][field] # value
    /\ LET line == formData.materials[index]
           qty == IF field = "quantity" THEN value ELSE line.quantity
           rate == IF field = "rate" THEN value ELSE line.rate
       IN  renderForm([formData EXCEPT
               !.materials[index] = [line EXCEPT !.quantity = qty, !.rate = rate,
                                                 !.amount = qty * rate]])
    /\ history' = [history EXCEPT !.materialsEdited = TRUE]
    /\ UNCHANGED <<modalVersion, preselectedEntryIds, isOpen, paymentDate, isSubmitting,
                   appendVars, inwardEntriesData, settings, serverVars, requestVars>>

\* the manual subtotal input, rendered while there are no material lines
setSubtotal(value) ==
    /\ isOpen
    /\ formData.materials = <<>>
    /\ value # formData.subtotal
    /\ renderForm([formData EXCEPT !.subtotal = value])
    /\ UNCHANGED <<modalVersion, preselectedEntryIds, isOpen, paymentDate, isSubmitting,
                   appendVars, inwardEntriesData, settings, serverVars, requestVars,
                   history>>

setAdditionalCharges(value) ==
    /\ isOpen
    /\ modalVersion = "append"
    /\ value # formData.additionalCharges
    /\ renderForm([formData EXCEPT !.additionalCharges = value])
    /\ UNCHANGED <<modalVersion, preselectedEntryIds, isOpen, paymentDate, isSubmitting,
                   appendVars, inwardEntriesData, settings, serverVars, requestVars,
                   history>>

\* the Apply GST checkbox
toggleApplyGst ==
    /\ isOpen
    /\ modalVersion = "append"
    /\ renderForm([formData EXCEPT
           !.applyGst = IF @ = "true" THEN "false" ELSE "true"])
    /\ UNCHANGED <<modalVersion, preselectedEntryIds, isOpen, paymentDate, isSubmitting,
                   appendVars, inwardEntriesData, settings, serverVars, requestVars,
                   history>>

\* The settings query resolves; then Auto-populate GST rates from settings
SettingsLoaded(s) ==
    /\ isOpen
    /\ ~settings.loaded
    /\ settings' = s
    /\ renderForm(IF s.present
                  THEN [formData EXCEPT !.cgstRate = parseFloatOr9(s.cgst),
                                        !.sgstRate = parseFloatOr9(s.sgst)]
                  ELSE formData)
    /\ UNCHANGED <<modalVersion, preselectedEntryIds, isOpen, paymentDate, isSubmitting,
                   appendVars, inwardEntriesData, serverVars, requestVars, history>>

\* Payment Received? checkbox
togglePaymentReceived ==
    /\ isOpen
    /\ LET checked == ~isPaymentReceived
       IN  render(formData, checked, isAmountManuallyEdited,
                  IF modalVersion = "append" /\ checked /\ paymentAmount = Num(0)
                  THEN toFixed2(grandTotal) ELSE paymentAmount)
    /\ history' = [history EXCEPT !.paymentTouched = TRUE]
    /\ UNCHANGED <<modalVersion, preselectedEntryIds, isOpen, paymentDate, isSubmitting,
                   appendVars, inwardEntriesData, settings, serverVars, requestVars>>

\* the payment Amount input
setPaymentAmount(value) ==
    /\ isOpen
    /\ modalVersion = "append"
    /\ isPaymentReceived
    /\ value # paymentAmount
    /\ render(formData, isPaymentReceived, TRUE, value)
    /\ history' = [history EXCEPT !.paymentTouched = TRUE]
    /\ UNCHANGED <<modalVersion, preselectedEntryIds, isOpen, paymentDate, isSubmitting,
                   appendVars, inwardEntriesData, settings, serverVars, requestVars>>

\* the payment Date input
setPaymentDate(day) ==
    /\ isOpen
    /\ isPaymentReceived
    /\ day # paymentDate
    /\ paymentDate' = day
    /\ history' = [history EXCEPT !.paymentTouched = TRUE]
    /\ UNCHANGED <<modalVersion, preselectedEntryIds, isOpen, formData, isPaymentReceived,
                   paymentAmount, isAmountManuallyEdited, isSubmitting, appendVars,
                   inwardEntriesData, settings, serverVars, requestVars>>

(***************************************************************************)
(* CreateInvoiceModal: existing-invoice check and append                   *)
(***************************************************************************)
\* limit of the existing-invoice check
CheckLimit == 5

\* the response of a check for company c arrives
CheckComplete(c) ==
    /\ pendingChecks[c] > 0
    /\ pendingChecks' = [pendingChecks EXCEPT ![c] = @ - 1]
    /\ LET found == candidate(getInvoices(dbInvoices, c, CheckLimit))
       IN  /\ existingInvoice' = found
           /\ showAppendAlert' = (found # 0)
           /\ isAppendMode' = FALSE
    /\ UNCHANGED <<modalVersion, preselectedEntryIds, isOpen, formData, paymentVars,
                   isSubmitting, inwardEntriesData, settings, serverVars,
                   pendingAppend, pendingSubmit, history>>

\* the check for company c fails: the error is logged
CheckFailed(c) ==
    /\ pendingChecks[c] > 0
    /\ pendingChecks' = [pendingChecks EXCEPT ![c] = @ - 1]
    /\ UNCHANGED <<modalVersion, preselectedEntryIds, isOpen, formData, paymentVars,
                   isSubmitting, appendVars, inwardEntriesData, settings, serverVars,
                   pendingAppend, pendingSubmit, history>>

\* the alert "Existing Invoice Found" is rendered
alertShown == showAppendAlert /\ existingInvoice # 0 /\ ~isAppendMode

\* button "Create New Invoice" of the alert
dismissAlert ==
    /\ isOpen
    /\ alertShown
    /\ showAppendAlert' = FALSE
    /\ UNCHANGED <<modalVersion, preselectedEntryIds, isOpen, formData, paymentVars,
                   isSubmitting, existingInvoice, isAppendMode, inwardEntriesData,
                   settings, serverVars, requestVars, history>>

\* button "Append to ..." of the alert: handleAppendConfirm up to its await;
\* one load of an existing invoice is in flight at a time
handleAppendConfirm ==
    /\ isOpen
    /\ alertShown
    /\ pendingAppend = 0
    /\ isAppendMode' = TRUE
    /\ showAppendAlert' = FALSE
    /\ pendingAppend' = existingInvoice
    /\ UNCHANGED <<modalVersion, preselectedEntryIds, isOpen, formData, paymentVars,
                   isSubmitting, existingInvoice, inwardEntriesData, settings,
                   serverVars, pendingChecks, pendingSubmit, history>>

\* fullInvoice.cgst ? (fullInvoice.cgst / fullInvoice.subtotal * 100) : prev.cgstRate
rateFromInvoice(tax, subtotal, prevRate) ==
    IF tax.n # 0 THEN mul(div(tax, Num(subtotal)), Num(100)) ELSE prevRate

\* the merge of the loaded invoice into the form
mergedForm(fd, fullInvoice, entryIds) ==
    [fd EXCEPT
        !.materials = fullInvoice.materials \o @,
        !.manifestNos = unique(fullInvoice.manifestNos \o @),
        !.inwardEntryIds = unique(entryIds \o @),
        !.cgstRate = rateFromInvoice(fullInvoice.cgst, fullInvoice.subtotal, @),
        !.sgstRate = rateFromInvoice(fullInvoice.sgst, fullInvoice.subtotal, @),
        !.additionalCharges = fullInvoice.additionalCharges]

\* getInvoiceById resolves: handleAppendConfirm after its await
AppendLoaded ==
    /\ pendingAppend # 0
    /\ LET fullInvoice == dbInvoices[pendingAppend]
           entryIds == linkedEntryIds(dbEntries, pendingAppend)
           fd2 == mergedForm(formData, fullInvoice, entryIds)
           paid == fullInvoice.paymentReceived.n > 0
       IN  /\ Len(fd2.materials) <= MaxLines
           /\ render(fd2,
                     IF paid THEN TRUE ELSE isPaymentReceived,
                     isAmountManuallyEdited,
                     IF paid THEN fullInvoice.paymentReceived ELSE paymentAmount)
           /\ paymentDate' = IF paid /\ fullInvoice.paymentReceivedOn # "null"
                             THEN fullInvoice.paymentReceivedOn ELSE paymentDate
           /\ history' = [history EXCEPT !.fullInvoice = fullInvoice,
                                         !.fullInvoiceEntryIds = entryIds]
    /\ pendingAppend' = 0
    /\ UNCHANGED <<modalVersion, preselectedEntryIds, isOpen, isSubmitting, appendVars,
                   inwardEntriesData, settings, serverVars, pendingChecks,
                   pendingSubmit>>

\* getInvoiceById rejects: a toast, nothing else
AppendLoadFailed ==
    /\ pendingAppend # 0
    /\ pendingAppend' = 0
    /\ UNCHANGED <<modalVersion, preselectedEntryIds, isOpen, formData, paymentVars,
                   isSubmitting, appendVars, inwardEntriesData, settings, serverVars,
                   pendingChecks, pendingSubmit, history>>

(***************************************************************************)
(* CreateInvoiceModal: submit                                              *)
(***************************************************************************)
\* formData.applyGst ? formData.cgstRate : 0 (the plain modal sends the rate)
payloadRate(version, fd, rate) ==
    IF version = "append" /\ fd.applyGst # "true" THEN Num(0) ELSE rate

materialsDropped(fd) == <<>>

materialsSent(fd) == fd.materials

\* UPDATE Existing Invoice
updatePayload ==
    [kind |-> "update", id |-> existingInvoice, companyId |-> 0,
     materials |-> materialsSent(formData),
     manifestNos |-> unique(formData.manifestNos),
     inwardEntryIds |-> formData.inwardEntryIds,
     subtotal |-> subtotalOf(formData),
     cgstRate |-> payloadRate(modalVersion, formData, formData.cgstRate),
     sgstRate |-> payloadRate(modalVersion, formData, formData.sgstRate),
     additionalCharges |-> formData.additionalCharges,
     paymentReceived |-> IF isPaymentReceived THEN paymentAmount ELSE Num(0),
     paymentReceivedOn |-> IF isPaymentReceived THEN paymentDate ELSE "null"]

\* CREATE New Invoice; the plain modal sends the manual subtotal and, when
\* paid, the grand total
createPayload ==
    [kind |-> "create", id |-> 0, companyId |-> formData.companyId,
     materials |-> formData.materials,
     manifestNos |-> formData.manifestNos,
     inwardEntryIds |-> formData.inwardEntryIds,
     subtotal |-> IF modalVersion = "append" THEN subtotalOf(formData)
                  ELSE formData.subtotal,
     cgstRate |-> payloadRate(modalVersion, formData, formData.cgstRate),
     sgstRate |-> payloadRate(modalVersion, formData, formData.sgstRate),
     additionalCharges |-> IF modalVersion = "append" THEN formData.additionalCharges
                           ELSE 0,
     paymentReceived |-> IF ~isPaymentReceived THEN Num(0)
                         ELSE IF modalVersion = "append" THEN paymentAmount
                         ELSE grandTotal,
     paymentReceivedOn |-> IF isPaymentReceived THEN paymentDate ELSE "null"]

\* the form's submit button, disabled while a submit is in flight:
\* handleSubmit up to its await
handleSubmit ==
    /\ isOpen
    /\ ~isSubmitting
    /\ IF formData.companyId = 0 \/ (formData.materials = <<>> /\ formData.subtotal = 0)
       THEN UNCHANGED <<isSubmitting, pendingSubmit>>
       ELSE /\ isSubmitting' = TRUE
            /\ pendingSubmit' =
                   IF modalVersion = "append" /\ isAppendMode /\ existingInvoice # 0
                   THEN updatePayload ELSE createPayload
    /\ UNCHANGED <<modalVersion, preselectedEntryIds, isOpen, formData, paymentVars,
                   appendVars, inwardEntriesData, settings, serverVars, pendingChecks,
                   pendingAppend, history>>

\* a >= b for fractions
atLeast(a, b) == a.n * b.d >= b.n * a.d

\* server: the invoice a create or update request leaves stored.  The taxes
\* are the rates (9 when none is sent) on subtotal + additional charges.
storedInvoice(id, companyId, p) ==
    LET base == Num(p.subtotal + p.additionalCharges)
        cgst == div(mul(base, IF p.cgstRate = undefined THEN Num(9) ELSE p.cgstRate), Num(100))
        sgst == div(mul(base, IF p.sgstRate = undefined THEN Num(9) ELSE p.sgstRate), Num(100))
        total == add(add(base, cgst), sgst)
    IN  Invoice(id, companyId,
                IF atLeast(p.paymentReceived, total) THEN "paid"
                ELSE IF p.paymentReceived.n > 0 THEN "partial" ELSE "pending",
                p.materials, p.manifestNos, p.subtotal, p.additionalCharges,
                cgst, sgst, p.paymentReceived, p.paymentReceivedOn)

\* server: the entries of the request are linked to the invoice, the other
\* entries of the invoice are unlinked
relinked(entries, id, ids) ==
    [i \in DOMAIN entries |->
        IF i \in Range(ids) THEN [entries[i] EXCEPT !.invoiceId = id]
        ELSE IF entries[i].invoiceId = id THEN [entries[i] EXCEPT !.invoiceId = 0]
        ELSE entries[i]]

\* server: createInvoice / updateInvoice; no version is sent or compared
applySubmit(p) ==
    IF p.kind = "update"
    THEN /\ dbInvoices' = [dbInvoices EXCEPT
                              ![p.id] = storedInvoice(p.id, dbInvoices[p.id].companyId, p)]
         /\ dbEntries' = relinked(dbEntries, p.id, p.inwardEntryIds)
    ELSE LET id == Len(dbInvoices) + 1
         IN  /\ dbInvoices' = Append(dbInvoices, storedInvoice(id, p.companyId, p))
             /\ dbEntries' = relinked(dbEntries, id, p.inwardEntryIds)

\* Reset form (the append modal's literal has no applyGst)
resetFormData ==
    [companyId |-> 0, materials |-> <<>>, manifestNos |-> <<>>,
     inwardEntryIds |-> <<>>, subtotal |-> 0,
     cgstRate |-> undefined, sgstRate |-> undefined,
     additionalCharges |-> 0,
     applyGst |-> IF modalVersion = "append" THEN "undefined" ELSE formData.applyGst]

\* the request resolves: handleSubmit after its await.  onClose() makes the
\* page hide the modal; behaviours are followed up to there
SubmitOk ==
    /\ pendingSubmit.kind # "none"
    /\ applySubmit(pendingSubmit)
    /\ pendingSubmit' = NoSubmit
    /\ isSubmitting' = FALSE
    /\ IF modalVersion = "append"
       THEN /\ render(resetFormData, FALSE, FALSE, Num(0))
            /\ paymentDate' = Today
            /\ isAppendMode' = FALSE
            /\ existingInvoice' = 0
            /\ showAppendAlert' = IF formData.companyId # 0 THEN FALSE ELSE showAppendAlert
            /\ inwardEntriesData' = IF formData.companyId # 0 THEN Loading
                                    ELSE inwardEntriesData
       ELSE /\ renderForm(resetFormData)
            /\ UNCHANGED <<paymentDate, appendVars, inwardEntriesData>>
    /\ history' = [history EXCEPT
                       !.overwritten = IF pendingSubmit.kind = "update"
                                       THEN dbInvoices[pendingSubmit.id] ELSE NoInvoice]
    /\ isOpen' = FALSE
    /\ UNCHANGED <<modalVersion, preselectedEntryIds, settings, pendingChecks,
                   pendingAppend>>

\* a catch block without the finally block: isSubmitting is left as it is
SubmitFailedWithoutFinally ==
    /\ pendingSubmit.kind # "none"
    /\ pendingSubmit' = NoSubmit
    /\ UNCHANGED <<modalVersion, preselectedEntryIds, isOpen, formData, paymentVars,
                   isSubmitting, appendVars, inwardEntriesData, settings, serverVars,
                   pendingChecks, pendingAppend>>

\* the request rejects: a toast, and isSubmitting back to false (finally).
\* The history is left to the specification.
SubmitFailed ==
    /\ pendingSubmit.kind # "none"
    /\ pendingSubmit' = NoSubmit
    /\ isSubmitting' = FALSE
    /\ UNCHANGED <<modalVersion, preselectedEntryIds, isOpen, formData, paymentVars,
                   appendVars, inwardEntriesData, settings, serverVars, pendingChecks,
                   pendingAppend>>

(***************************************************************************)
(* Another session edits invoice 1 on the server                           *)
(***************************************************************************)
\* it records a payment, or links entry 2 with its material line
otherSessionEdit(what) ==
    /\ history.otherEdits < MaxOtherEdits
    /\ history' = [history EXCEPT !.otherEdits = @ + 1]
    /\ LET inv == dbInvoices[1]
           line == lineOf(dbEntries[2])
           p == [materials |-> IF what = "entry" THEN Append(inv.materials, line)
                               ELSE inv.materials,
                 manifestNos |-> inv.manifestNos,
                 subtotal |-> IF what = "entry" THEN inv.subtotal + line.amount
                              ELSE inv.subtotal,
                 additionalCharges |-> inv.additionalCharges,
                 cgstRate |-> Num(9), sgstRate |-> Num(9),
                 paymentReceived |-> IF what = "payment" THEN Num(80)
                                     ELSE inv.paymentReceived,
                 paymentReceivedOn |-> IF what = "payment" THEN "otherDay"
                                       ELSE inv.paymentReceivedOn]
       IN  /\ what = "entry" => dbEntries[2].invoiceId = 0
           /\ dbInvoices' = [dbInvoices EXCEPT ![1] = storedInvoice(1, inv.companyId, p)]
           /\ dbEntries' = IF what = "entry"
                           THEN [dbEntries EXCEPT ![2].invoiceId = 1]
                           ELSE dbEntries
    /\ UNCHANGED <<modalVersion, preselectedEntryIds, isOpen, formData, paymentVars,
                   isSubmitting, appendVars, inwardEntriesData, settings, requestVars>>

(***************************************************************************)
(* Specifications                                                          *)
(***************************************************************************)
InitInward ==
    /\ InwardIdle
    /\ PageIdle
    /\ CtlIdle
    /\ ModalIdle

CreateInputs ==
    [present : FieldChoices, companyId : CompanyIds,
     lotNo : LotInputs \cup {UNDEF}, srNo : SrNoInputs]

NextInward ==
    \/ \E data \in CreateInputs : createEntry(data) /\ UNCHANGED <<inFlight, pageVars, ctlVars, modalVars>>
    \/ \E entryId \in EntryIds, lotNo \in LotInputs \cup {UNDEF} :
           updateEntry(entryId, lotNo) /\ UNCHANGED <<inFlight, pageVars, ctlVars, modalVars>>
    \/ \E entryId \in EntryIds : deleteEntry(entryId) /\ UNCHANGED <<inFlight, pageVars, ctlVars, modalVars>>

SpecInward == InitInward /\ [][NextInward]_vars

InitRace ==
    /\ InwardIdle
    /\ PageIdle
    /\ CtlIdle
    /\ ModalIdle

\* one field missing or none, company 1 or 9, no lotNo or a caller's, no srNo
RaceInputs ==
    [present : {RequiredFields, RequiredFields \ {"unit"}}, companyId : CompanyIds,
     lotNo : {UNDEF, <<Custom(1)>>}, srNo : {0}]

NextRace ==
    \/ \E r \in 1..MaxConcurrent, data \in RaceInputs :
           createEntryStarts(r, data) /\ UNCHANGED <<pageVars, ctlVars, modalVars>>
    \/ \E r \in 1..MaxConcurrent :
           createEntryResumes(r) /\ UNCHANGED <<pageVars, ctlVars, modalVars>>

SpecRace == InitRace /\ [][NextRace]_vars

InitPage ==
    /\ InwardIdle
    /\ CtlIdle
    /\ ModalIdle
    /\ pageTable \in SUBSET {PoolRow(i) : i \in 1..MaxRows}
    /\ pageQuery = NoQuery
    /\ pageResult = NoResult

NextPage ==
    \E q \in PageQueries : getAllEntries(q) /\ UNCHANGED <<inwardVars, ctlVars, modalVars>>

SpecPage == InitPage /\ [][NextPage]_vars

InitCtl ==
    /\ InwardIdle
    /\ PageIdle
    /\ CtlIdle
    /\ ModalIdle

NextCtl ==
    \/ \E role \in Roles, svc \in Outcomes(EntryPages) :
           ctlGetAllEntries(role, svc)
           /\ UNCHANGED <<inwardVars, pageVars, routeVars, modalVars>>
    \/ \E role \in Roles, svc \in Outcomes(EntryValues) :
           ctlGetEntryById(role, svc)
           /\ UNCHANGED <<inwardVars, pageVars, routeVars, modalVars>>
    \/ \E role \in Roles, svc \in Outcomes(EntryValues), logThrows \in BOOLEAN :
           ctlCreateEntry(role, svc, logThrows /\ svc.threw)
           /\ UNCHANGED <<inwardVars, pageVars, routeVars, modalVars>>
    \/ \E role \in Roles, svc \in Outcomes(EntryValues) :
           ctlUpdateEntry(role, svc)
           /\ UNCHANGED <<inwardVars, pageVars, routeVars, modalVars>>
    \/ \E role \in Roles, svc \in Outcomes({NoData}) :
           ctlDeleteEntry(role, svc)
           /\ UNCHANGED <<inwardVars, pageVars, routeVars, modalVars>>
    \/ \E role \in Roles, svc \in Outcomes(EntryValues) :
           ctlUpdatePayment(role, svc)
           /\ UNCHANGED <<inwardVars, pageVars, routeVars, modalVars>>
    \/ \E role \in Roles, svc \in Outcomes(StatsValues) :
           ctlGetStats(role, svc)
           /\ UNCHANGED <<inwardVars, pageVars, routeVars, modalVars>>
    \/ \E role \in Roles, svc \in Outcomes(CompanyPages) :
           ctlGetAllCompanies(role, svc)
           /\ UNCHANGED <<inwardVars, pageVars, routeVars, modalVars>>
    \/ \E role \in Roles, svc \in Outcomes(CompanyValues) :
           ctlGetCompanyById(role, svc)
           /\ UNCHANGED <<inwardVars, pageVars, routeVars, modalVars>>
    \/ \E role \in Roles, svc \in Outcomes(CompanyValues) :
           ctlCreateCompany(role, svc)
           /\ UNCHANGED <<inwardVars, pageVars, routeVars, modalVars>>
    \/ \E role \in Roles, svc \in Outcomes(CompanyValues) :
           ctlUpdateCompany(role, svc)
           /\ UNCHANGED <<inwardVars, pageVars, routeVars, modalVars>>
    \/ \E role \in Roles, svc \in Outcomes({NoData}) :
           ctlDeleteCompany(role, svc)
           /\ UNCHANGED <<inwardVars, pageVars, routeVars, modalVars>>
    \/ \E role \in Roles, svc \in Outcomes(MaterialLists) :
           ctlGetCompanyMaterials(role, svc)
           /\ UNCHANGED <<inwardVars, pageVars, routeVars, modalVars>>
    \/ \E role \in Roles, svc \in Outcomes(MaterialValues) :
           ctlAddMaterial(role, svc)
           /\ UNCHANGED <<inwardVars, pageVars, routeVars, modalVars>>
    \/ \E role \in Roles, svc \in Outcomes(MaterialValues) :
           ctlUpdateMaterial(role, svc)
           /\ UNCHANGED <<inwardVars, pageVars, routeVars, modalVars>>
    \/ \E role \in Roles, svc \in Outcomes({NoData}) :
           ctlRemoveMaterial(role, svc)
           /\ UNCHANGED <<inwardVars, pageVars, routeVars, modalVars>>
    \/ \E role \in Roles, svc \in Outcomes(StatsValues) :
           ctlGetCompanyStats(role, svc)
           /\ UNCHANGED <<inwardVars, pageVars, routeVars, modalVars>>
    \/ \E role \in Roles, svc \in Outcomes(StatsValues) :
           ctlGetGlobalStats(role, svc)
           /\ UNCHANGED <<inwardVars, pageVars, routeVars, modalVars>>

SpecCtl == InitCtl /\ [][NextCtl]_vars

InitRoute ==
    /\ InwardIdle
    /\ PageIdle
    /\ CtlIdle
    /\ ModalIdle

NextRoute ==
    \/ \E router \in DOMAIN Routers : \E i \in DOMAIN Routers[router] :
           routeMatched(router, i)
           /\ UNCHANGED <<inwardVars, pageVars, ctlReq, ctlRes, ctlNext, modalVars>>
    \/ \E callsNext \in BOOLEAN :
           routeLayerRuns(callsNext)
           /\ UNCHANGED <<inwardVars, pageVars, ctlReq, ctlRes, ctlNext, modalVars>>

SpecRoute == InitRoute /\ [][NextRoute]_vars

\* what the user types and what the settings hold
SubtotalInputs == {0, 100}
ChargesInputs == {0, 10}
QuantityInputs == {0, 3}
PaymentInputs == {Num(0), Num(80)}
SettingTexts == {<<>>, <<0>>, <<6>>}

SettingsValues ==
    {[loaded |-> TRUE, present |-> FALSE, cgst |-> <<>>, sgst |-> <<>>]} \cup
    {[loaded |-> TRUE, present |-> TRUE, cgst |-> t, sgst |-> t] : t \in SettingTexts} \cup
    {[loaded |-> TRUE, present |-> TRUE, cgst |-> <<6>>, sgst |-> <<>>]}

PreselectedInputs == {<<>>, <<1, 2>>}

InitTotals ==
    /\ InwardIdle
    /\ PageIdle
    /\ CtlIdle
    /\ \E version \in {"append", "plain"} :
           ModalMounted(version, <<>>, SeedInvoices("paid"))

NextTotals ==
    \/ \E c \in ModalCompanies \cup {0} :
           selectCompany(c) /\ UNCHANGED <<inwardVars, pageVars, ctlVars>>
    \/ EntriesLoaded /\ UNCHANGED <<inwardVars, pageVars, ctlVars>>
    \/ \E c \in ModalCompanies : CheckComplete(c) /\ UNCHANGED <<inwardVars, pageVars, ctlVars>>
    \/ \E id \in DOMAIN SeedEntries :
           toggleEntry(id) /\ UNCHANGED <<inwardVars, pageVars, ctlVars>>
    \/ \E index \in 1..MaxLines, field \in {"quantity", "rate"}, value \in QuantityInputs :
           updateMaterial(index, field, value) /\ UNCHANGED <<inwardVars, pageVars, ctlVars>>
    \/ \E index \in 1..MaxLines :
           removeMaterial(index) /\ UNCHANGED <<inwardVars, pageVars, ctlVars>>
    \/ \E value \in SubtotalInputs :
           setSubtotal(value) /\ UNCHANGED <<inwardVars, pageVars, ctlVars>>
    \/ \E value \in ChargesInputs :
           setAdditionalCharges(value) /\ UNCHANGED <<inwardVars, pageVars, ctlVars>>
    \/ toggleApplyGst /\ UNCHANGED <<inwardVars, pageVars, ctlVars>>
    \/ \E s \in SettingsValues :
           SettingsLoaded(s) /\ UNCHANGED <<inwardVars, pageVars, ctlVars>>

SpecTotals == InitTotals /\ [][NextTotals]_vars

InitModal ==
    /\ InwardIdle
    /\ PageIdle
    /\ CtlIdle
    /\ \E preselected \in PreselectedInputs :
           ModalMounted("append", preselected, SeedInvoices("paid"))

NextModal ==
    \/ \E c \in ModalCompanies \cup {0} :
           ~isSubmitting /\ selectCompany(c) /\ UNCHANGED <<inwardVars, pageVars, ctlVars>>
    \/ EntriesLoaded /\ UNCHANGED <<inwardVars, pageVars, ctlVars>>
    \/ \E c \in ModalCompanies : CheckComplete(c) /\ UNCHANGED <<inwardVars, pageVars, ctlVars>>
    \/ ~isSubmitting /\ dismissAlert /\ UNCHANGED <<inwardVars, pageVars, ctlVars>>
    \/ ~isSubmitting /\ handleAppendConfirm /\ UNCHANGED <<inwardVars, pageVars, ctlVars>>
    \/ AppendLoaded /\ UNCHANGED <<inwardVars, pageVars, ctlVars>>
    \/ AppendLoadFailed /\ UNCHANGED <<inwardVars, pageVars, ctlVars>>
    \/ \E id \in DOMAIN SeedEntries :
           ~isSubmitting /\ toggleEntry(id) /\ UNCHANGED <<inwardVars, pageVars, ctlVars>>
    \/ \E index \in 1..MaxLines :
           ~isSubmitting /\ removeMaterial(index) /\ UNCHANGED <<inwardVars, pageVars, ctlVars>>
    \/ \E value \in SubtotalInputs :
           ~isSubmitting /\ setSubtotal(value) /\ UNCHANGED <<inwardVars, pageVars, ctlVars>>
    \/ handleSubmit /\ UNCHANGED <<inwardVars, pageVars, ctlVars>>
    \/ SubmitOk /\ UNCHANGED <<inwardVars, pageVars, ctlVars>>
    \/ SubmitFailed /\ UNCHANGED <<inwardVars, pageVars, ctlVars, history>>
    \/ \E what \in {"payment", "entry"} :
           otherSessionEdit(what) /\ UNCHANGED <<inwardVars, pageVars, ctlVars>>

SpecModal == InitModal /\ [][NextModal]_vars

InitCheck ==
    /\ InwardIdle
    /\ PageIdle
    /\ CtlIdle
    /\ \E oldestStatus \in {"paid", "pending"} :
           ModalMounted("append", <<>>, SeedInvoices(oldestStatus))

NextCheck ==
    \/ \E c \in ModalCompanies \cup {0} :
           selectCompany(c) /\ UNCHANGED <<inwardVars, pageVars, ctlVars>>
    \/ EntriesLoaded /\ UNCHANGED <<inwardVars, pageVars, ctlVars>>
    \/ \E c \in ModalCompanies : CheckComplete(c) /\ UNCHANGED <<inwardVars, pageVars, ctlVars>>
    \/ \E c \in ModalCompanies : CheckFailed(c) /\ UNCHANGED <<inwardVars, pageVars, ctlVars>>
    \/ dismissAlert /\ UNCHANGED <<inwardVars, pageVars, ctlVars>>
    \/ handleAppendConfirm /\ UNCHANGED <<inwardVars, pageVars, ctlVars>>
    \/ AppendLoaded /\ UNCHANGED <<inwardVars, pageVars, ctlVars>>
    \/ AppendLoadFailed /\ UNCHANGED <<inwardVars, pageVars, ctlVars>>
    \/ \E id \in DOMAIN SeedEntries :
           toggleEntry(id) /\ UNCHANGED <<inwardVars, pageVars, ctlVars>>

SpecCheck == InitCheck /\ [][NextCheck]_vars

InitPayment ==
    /\ InwardIdle
    /\ PageIdle
    /\ CtlIdle
    /\ ModalMounted("append", <<>>, SeedInvoices("paid"))

NextPayment ==
    \/ selectCompany(1) /\ UNCHANGED <<inwardVars, pageVars, ctlVars>>
    \/ EntriesLoaded /\ UNCHANGED <<inwardVars, pageVars, ctlVars>>
    \/ CheckComplete(1) /\ UNCHANGED <<inwardVars, pageVars, ctlVars>>
    \/ ~isSubmitting /\ handleAppendConfirm /\ UNCHANGED <<inwardVars, pageVars, ctlVars>>
    \/ AppendLoaded /\ UNCHANGED <<inwardVars, pageVars, ctlVars>>
    \/ \E id \in DOMAIN SeedEntries :
           ~isSubmitting /\ toggleEntry(id) /\ UNCHANGED <<inwardVars, pageVars, ctlVars>>
    \/ ~isSubmitting /\ togglePaymentReceived /\ UNCHANGED <<inwardVars, pageVars, ctlVars>>
    \/ \E value \in PaymentInputs :
           ~isSubmitting /\ setPaymentAmount(value) /\ UNCHANGED <<inwardVars, pageVars, ctlVars>>
    \/ ~isSubmitting /\ setPaymentDate("picked") /\ UNCHANGED <<inwardVars, pageVars, ctlVars>>
    \/ handleSubmit /\ UNCHANGED <<inwardVars, pageVars, ctlVars>>
    \/ SubmitOk /\ UNCHANGED <<inwardVars, pageVars, ctlVars>>
    \/ SubmitFailed /\ UNCHANGED <<inwardVars, pageVars, ctlVars, history>>

SpecPayment == InitPayment /\ [][NextPayment]_vars

InitSubmit ==
    /\ InwardIdle
    /\ PageIdle
    /\ CtlIdle
    /\ \E version \in {"append", "plain"} :
           ModalMounted(version, <<>>, SeedInvoices("paid"))

\* the inputs of the form stay enabled while a request is in flight; only
\* the submit and cancel buttons are disabled
NextSubmit ==
    \/ selectCompany(1) /\ UNCHANGED <<inwardVars, pageVars, ctlVars>>
    \/ EntriesLoaded /\ UNCHANGED <<inwardVars, pageVars, ctlVars>>
    \/ CheckComplete(1) /\ UNCHANGED <<inwardVars, pageVars, ctlVars>>
    \/ handleAppendConfirm /\ UNCHANGED <<inwardVars, pageVars, ctlVars>>
    \/ AppendLoaded /\ UNCHANGED <<inwardVars, pageVars, ctlVars>>
    \/ toggleEntry(2) /\ UNCHANGED <<inwardVars, pageVars, ctlVars>>
    \/ setSubtotal(100) /\ UNCHANGED <<inwardVars, pageVars, ctlVars>>
    \/ togglePaymentReceived /\ UNCHANGED <<inwardVars, pageVars, ctlVars>>
    \/ handleSubmit /\ UNCHANGED <<inwardVars, pageVars, ctlVars>>
    \/ SubmitOk /\ UNCHANGED <<inwardVars, pageVars, ctlVars>>
    \/ /\ SubmitFailed
       /\ history' = [history EXCEPT !.submitFailed = TRUE]
       /\ UNCHANGED <<inwardVars, pageVars, ctlVars>>

SpecSubmit == InitSubmit /\ [][NextSubmit]_vars

\* the rates an existing invoice was computed with; undefined stands for
\* Apply GST switched off
InvoiceRates == {undefined, Num(9), Num(6)}

\* invoice 1 as the modal's formula computes it: one line of 100, the rate
\* (none with GST off) on subtotal + additional charges
computedInvoice(charges, rate) ==
    LET fd == [initialFormData(<<>>) EXCEPT
                  !.materials = <<lineOf(SeedEntries[1])>>,
                  !.additionalCharges = charges,
                  !.cgstRate = rate, !.sgstRate = rate,
                  !.applyGst = IF rate = undefined THEN "false" ELSE "true"]
        t == totals("append", fd)
    IN  Invoice(1, 1, "pending", fd.materials, <<"M1">>, t.subtotal, charges,
                t.cgst, t.sgst, Num(0), "null")

InitAppend ==
    /\ InwardIdle
    /\ PageIdle
    /\ CtlIdle
    /\ \E charges \in ChargesInputs, rate \in InvoiceRates :
           ModalMounted("append", <<>>,
                        [SeedInvoices("paid") EXCEPT ![1] = computedInvoice(charges, rate)])

NextAppend ==
    \/ \E c \in ModalCompanies \cup {0} :
           selectCompany(c) /\ UNCHANGED <<inwardVars, pageVars, ctlVars>>
    \/ EntriesLoaded /\ UNCHANGED <<inwardVars, pageVars, ctlVars>>
    \/ \E s \in SettingsValues :
           SettingsLoaded(s) /\ UNCHANGED <<inwardVars, pageVars, ctlVars>>
    \/ \E c \in ModalCompanies : CheckComplete(c) /\ UNCHANGED <<inwardVars, pageVars, ctlVars>>
    \/ handleAppendConfirm /\ UNCHANGED <<inwardVars, pageVars, ctlVars>>
    \/ AppendLoaded /\ UNCHANGED <<inwardVars, pageVars, ctlVars>>
    \/ AppendLoadFailed /\ UNCHANGED <<inwardVars, pageVars, ctlVars>>
    \/ toggleApplyGst /\ UNCHANGED <<inwardVars, pageVars, ctlVars>>

SpecAppend == InitAppend /\ [][NextAppend]_vars

lotTaken(lot) == \E e \in inwardEntries : e.lotNo = lot

lotTakenByOther(lot, entryId) ==
    \E e \in inwardEntries : e.lotNo = lot /\ e.id # entryId

requestedLimit == IF pageQuery.limit = Absent THEN 20 ELSE parseInt(pageQuery.limit)

C9_TotalPagesIsCeil ==
    pageQuery # NoQuery =>
        LET p == pageResult.pagination IN
        /\ p.limit = requestedLimit
        /\ p.total = Cardinality({r \in pageTable : matchesWhere(r, pageQuery)})
        /\ p.totalPages * p.limit >= p.total
        /\ p.totalPages >= 0
        /\ (p.totalPages > 0 => (p.totalPages - 1) * p.limit < p.total)

\* three matching rows paged by two: a last page that is not full
C9_Witness ==
    /\ pageQuery # NoQuery
    /\ pageResult.pagination.total = 3
    /\ pageResult.pagination.limit = 2
    /\ pageResult.pagination.totalPages = 2

(***************************************************************************)
(* C10.  A successful create (POST /api/inward, POST /api/companies, POST  *)
(* /api/companies/:id/materials) responds exactly once, with status 201    *)
(* and the envelope {success: true, data, message}, data holding the       *)
(* record the service returned (for a material, without its rate when the  *)
(* requester is not an admin); every other successful operation of the two *)
(* controllers responds exactly once with status 200.  Nothing is passed   *)
(* to next() on success.                                                   *)
(***************************************************************************)
CreateOps ==
    {<<"inward", "createEntry">>, <<"companies", "createCompany">>,
     <<"companies", "addMaterial">>}

\* the record a create responds with, under the key its route documents
createdData ==
    LET v == ctlReq.svc.value IN
    CASE ctlReq.op = "createEntry" -> [entry |-> v]
      [] ctlReq.op = "createCompany" -> [company |-> v]
      [] ctlReq.op = "addMaterial" ->
            [material |-> IF ctlReq.role = "admin" THEN v
                          ELSE [id |-> v.id, materialName |-> v.materialName]]

C10_CreateResponds201 ==
    (ctlReq.op # "none" /\ ~ctlReq.svc.threw) =>
        /\ Len(ctlRes) = 1
        /\ ctlNext = <<>>
        /\ ctlRes[1].success = TRUE
        /\ ctlRes[1].message # ""
        /\ IF <<ctlReq.controller, ctlReq.op>> \in CreateOps
           THEN /\ ctlRes[1].status = 201
                /\ ctlRes[1].data = createdData
           ELSE ctlRes[1].status = 200

\* an inward entry was created and answered
C10_Witness ==
    /\ ctlReq.controller = "inward"
    /\ ctlReq.op = "createEntry"
    /\ ~ctlReq.svc.threw
    /\ Len(ctlRes) = 1
    /\ ctlRes[1].status = 201
    /\ ctlRes[1].data.entry = ctlReq.svc.value

(***************************************************************************)
(* C3.  In every state of the modal's form the grand total is subtotal +   *)
(* additional charges + CGST + SGST, where each tax is its rate percent of *)
(* (subtotal + additional charges), both taxes are 0 when Apply GST is     *)
(* off, the rate is the form's (9 when the form has none), and subtotal is *)
(* the sum of the lines' amounts, or the manual subtotal when that sum is  *)
(* 0.  The plain modal has neither additional charges nor Apply GST.       *)
(***************************************************************************)
RECURSIVE amountsUpTo(_, _)
amountsUpTo(materials, k) ==
    IF k = 0 THEN 0 ELSE amountsUpTo(materials, k - 1) + materials[k].amount

C3_GrandTotalIsSum ==
    LET t == totals(modalVersion, formData)
        sum == amountsUpTo(formData.materials, Len(formData.materials))
        subtotal == IF sum # 0 THEN sum ELSE formData.subtotal
        charges == IF modalVersion = "append" THEN formData.additionalCharges ELSE 0
        gstOff == modalVersion = "append" /\ formData.applyGst # "true"
        percent(rate) == div(mul(Num(subtotal + charges), rate), Num(100))
        isSet(rate) == rate # undefined /\ (modalVersion = "append" \/ rate.n # 0)
    IN  /\ t.subtotal = subtotal
        /\ t.additionalCharges = charges
        /\ t.cgst = IF gstOff THEN Num(0) ELSE percent(t.cgstRateValue)
        /\ t.sgst = IF gstOff THEN Num(0) ELSE percent(t.sgstRateValue)
        /\ ~gstOff /\ isSet(formData.cgstRate) => t.cgstRateValue = formData.cgstRate
        /\ ~gstOff /\ isSet(formData.sgstRate) => t.sgstRateValue = formData.sgstRate
        /\ ~gstOff /\ formData.cgstRate = undefined => t.cgstRateValue = Num(9)
        /\ ~gstOff /\ formData.sgstRate = undefined => t.sgstRateValue = Num(9)
        /\ t.grandTotal = add(add(add(Num(subtotal), Num(charges)), t.cgst), t.sgst)

\* a form with a material line, additional charges, GST on and rates of the settings
C3_Witness ==
    /\ modalVersion = "append"
    /\ formData.materials # <<>>
    /\ sumAmounts(formData.materials) > 0
    /\ formData.additionalCharges > 0
    /\ formData.applyGst = "true"
    /\ formData.cgstRate = Num(6)

(***************************************************************************)
(* C4.  Every inward entry id of a submitted create or update payload is   *)
(* the id of an entry that, in the entry list the modal holds (on the      *)
(* server, for an entry the list does not hold), is linked to no invoice   *)
(* or to the invoice the payload updates.                                  *)
(***************************************************************************)
submitStarts == pendingSubmit.kind = "none" /\ pendingSubmit'.kind # "none"

entryAsHeld(id) ==
    LET held == {k \in DOMAIN inwardEntriesData.entries :
                    inwardEntriesData.entries[k].id = id}
    IN  IF held = {} THEN dbEntries[id]
        ELSE inwardEntriesData.entries[CHOOSE k \in held : TRUE]

C4_SubmittedEntriesAreFree ==
    [][submitStarts =>
          \A id \in Range(pendingSubmit'.inwardEntryIds) :
              \/ entryAsHeld(id).invoiceId = 0
              \/ /\ pendingSubmit'.kind = "update"
                 /\ entryAsHeld(id).invoiceId = pendingSubmit'.id]_vars

(***************************************************************************)
(* C5.  When the existing-invoice check for the selected company           *)
(* completes: if the company has an invoice that is not paid, the append   *)
(* alert is shown with a not-paid invoice of that company as candidate;    *)
(* if it has none, no alert is shown and no candidate is held.             *)
(***************************************************************************)
unpaidInvoices(c) ==
    {i \in DOMAIN dbInvoices :
        dbInvoices[i].companyId = c /\ dbInvoices[i].status # "paid"}

C5_CheckShowsCandidate ==
    [][\A c \in ModalCompanies :
          CheckComplete(c) /\ c = formData.companyId =>
              IF unpaidInvoices(c) # {}
              THEN showAppendAlert' /\ existingInvoice' \in unpaidInvoices(c)
              ELSE ~showAppendAlert' /\ existingInvoice' = 0]_vars

(***************************************************************************)
(* C6.  When an update is submitted for the invoice that was loaded into   *)
(* the form, and the user has not changed or removed lines of it by hand:  *)
(* each material line of the existing invoice is in the submitted          *)
(* materials exactly as often as in the invoice, each newly selected entry *)
(* has exactly one line there, and the submitted manifestNos and           *)
(* inwardEntryIds have no duplicates.                                      *)
(***************************************************************************)
count(seq, x) == Cardinality({i \in DOMAIN seq : seq[i] = x})

noDuplicates(seq) == \A i, j \in DOMAIN seq : seq[i] = seq[j] => i = j

C6_AppendNeverDoubleCounts ==
    [][(/\ submitStarts
        /\ pendingSubmit'.kind = "update"
        /\ history.fullInvoice.id = pendingSubmit'.id
        /\ ~history.materialsEdited) =>
          LET p == pendingSubmit'
              old == history.fullInvoice.materials
          IN  /\ \A i \in DOMAIN old : count(p.materials, old[i]) = count(old, old[i])
              /\ \A id \in Range(p.inwardEntryIds) \ Range(history.fullInvoiceEntryIds) :
                     count(p.materials, lineOf(dbEntries[id])) = 1
              /\ noDuplicates(p.manifestNos)
              /\ noDuplicates(p.inwardEntryIds)]_vars

(***************************************************************************)
(* C7.  When an update is submitted for the invoice that was loaded into   *)
(* the form, that invoice had a payment, and the user never used the       *)
(* payment checkbox, amount or date: the request carries the invoice's     *)
(* paymentReceived and paymentReceivedOn.                                  *)
(***************************************************************************)
C7_PaymentPreservedOnAppend ==
    [][(/\ submitStarts
        /\ pendingSubmit'.kind = "update"
        /\ history.fullInvoice.id = pendingSubmit'.id
        /\ history.fullInvoice.paymentReceived.n > 0
        /\ ~history.paymentTouched) =>
          /\ pendingSubmit'.paymentReceived = history.fullInvoice.paymentReceived
          /\ pendingSubmit'.paymentReceivedOn = history.fullInvoice.paymentReceivedOn]_vars

(***************************************************************************)
(* C8.  An update is sent with the form's copy of the materials, entry     *)
(* links and payment whatever the server holds by then, and when the       *)
(* request resolves the server's invoice holds exactly what was sent:      *)
(* nothing is compared with what the modal had loaded.  The witness is a   *)
(* lost update: another session's edit, made after the modal loaded the    *)
(* invoice, is gone after the modal's submit.                              *)
(***************************************************************************)
C8_StaleSubmitReplaces ==
    [][/\ (submitStarts /\ pendingSubmit'.kind = "update") =>
              /\ pendingSubmit'.id = existingInvoice
              /\ pendingSubmit'.materials = formData.materials
              /\ pendingSubmit'.inwardEntryIds = formData.inwardEntryIds
              /\ pendingSubmit'.paymentReceived =
                     IF isPaymentReceived THEN paymentAmount ELSE Num(0)
       /\ (SubmitOk /\ pendingSubmit.kind = "update") =>
              /\ dbInvoices'[pendingSubmit.id].materials = pendingSubmit.materials
              /\ dbInvoices'[pendingSubmit.id].paymentReceived = pendingSubmit.paymentReceived
              /\ Range(linkedEntryIds(dbEntries', pendingSubmit.id))
                     = Range(pendingSubmit.inwardEntryIds)]_vars

C8_Witness ==
    LET loaded == history.fullInvoice
        theirs == history.overwritten
        now == dbInvoices[theirs.id]
    IN  /\ theirs # NoInvoice
        /\ loaded.id = theirs.id
        /\ \/ /\ theirs.paymentReceived # loaded.paymentReceived
              /\ now.paymentReceived # theirs.paymentReceived
           \/ /\ theirs.materials # loaded.materials
              /\ now.materials # theirs.materials

(***************************************************************************)
(* C11.  createEntry stores an entry only if the six required fields are   *)
(* all present and the company exists.  A missing field gives the          *)
(* validation error, also when the company does not exist; a company that  *)
(* does not exist gives the not-found error; and then the table is         *)
(* unchanged, so that the next sr_no and the next generated lot number are *)
(* what they were.                                                         *)
(***************************************************************************)
C11_CreateValidatesFirst ==
    [][lastCall'.op = "createEntry" =>
         LET missing == RequiredFields \ lastCall'.present # {}
             noCompany == lastCall'.companyId \notin Companies
         IN  /\ missing => lastCall'.outcome = RequiredError
             /\ ~missing /\ noCompany => lastCall'.outcome = CompanyNotFound
             /\ missing \/ noCompany =>
                    /\ inwardEntries' = inwardEntries
                    /\ nextId' = nextId
                    /\ getNextSrNo(inwardEntries') = getNextSrNo(inwardEntries)
                    /\ generateLotNo(inwardEntries') = generateLotNo(inwardEntries)
             /\ inwardEntries' # inwardEntries => ~missing /\ ~noCompany]_vars

\* a call without a date for a company that does not exist, on a table with a row
C11_Witness ==
    /\ lastCall.op = "createEntry"
    /\ "date" \notin lastCall.present
    /\ lastCall.companyId \notin Companies
    /\ lastCall.outcome = RequiredError
    /\ inwardEntries # {}

(***************************************************************************)
(* C12.  Every request to the inward and companies controllers ends in     *)
(* exactly one outcome: one success response and nothing passed to next(), *)
(* or, when the service threw, no response and the service's error passed  *)
(* to next() exactly once.  For createEntry this is so as well when        *)
(* writing creation_error.log throws.                                      *)
(***************************************************************************)
C12_OneOutcomePerRequest ==
    ctlReq.op # "none" =>
        /\ Len(ctlRes) + Len(ctlNext) = 1
        /\ ctlReq.svc.threw => ctlRes = <<>> /\ ctlNext = <<ctlReq.svc.error>>
        /\ ~ctlReq.svc.threw => ctlNext = <<>> /\ ctlRes[1].success = TRUE

\* createEntry failed in the service and the debug log could not be written
C12_Witness ==
    /\ ctlReq.op = "createEntry"
    /\ ctlReq.svc.threw
    /\ ctlReq.logThrows
    /\ ctlNext = <<ctlReq.svc.error>>

(***************************************************************************)
(* C13.  For a requester who is not an admin (a request without a user     *)
(* included) no material in the response of getAllCompanies,               *)
(* getCompanyById, getCompanyMaterials, addMaterial or updateMaterial has  *)
(* a rate field, and every other field of every material is the one the    *)
(* service returned; for an admin the materials are the ones the service   *)
(* returned.  The response to a non-admin is thus a function of the        *)
(* service's result with the rates erased: two results that differ in      *)
(* rates only get the same response.                                       *)
(***************************************************************************)
StripOps ==
    {"getAllCompanies", "getCompanyById", "getCompanyMaterials", "addMaterial",
     "updateMaterial"}

\* sent is the material got, without its rate for a non-admin
materialAsClaimed(role, got, sent) ==
    IF role = "admin" THEN sent = got
    ELSE /\ DOMAIN sent = DOMAIN got \ {"rate"}
         /\ \A f \in DOMAIN sent : sent[f] = got[f]

materialsAsClaimed(role, got, sent) ==
    /\ DOMAIN sent = DOMAIN got
    /\ \A i \in DOMAIN got : materialAsClaimed(role, got[i], sent[i])

companyAsClaimed(role, got, sent) ==
    /\ DOMAIN sent = DOMAIN got
    /\ \A f \in DOMAIN got \ {"materials"} : sent[f] = got[f]
    /\ "materials" \in DOMAIN got =>
           materialsAsClaimed(role, got.materials, sent.materials)

C13_RateStrippedForNonAdmin ==
    (ctlReq.op \in StripOps /\ ~ctlReq.svc.threw) =>
        LET role == ctlReq.role
            got == ctlReq.svc.value
            sent == ctlRes[1].data
        IN  CASE ctlReq.op = "getAllCompanies" ->
                    /\ DOMAIN sent = DOMAIN got.companies
                    /\ \A i \in DOMAIN sent : companyAsClaimed(role, got.companies[i], sent[i])
              [] ctlReq.op = "getCompanyById" -> companyAsClaimed(role, got, sent.company)
              [] ctlReq.op = "getCompanyMaterials" ->
                    materialsAsClaimed(role, got, sent.materials)
              [] OTHER -> materialAsClaimed(role, got, sent.material)

\* a request without a user got a company whose price list has a material
C13_Witness ==
    /\ ctlReq.op = "getCompanyById"
    /\ ctlReq.role = "none"
    /\ ~ctlReq.svc.threw
    /\ "materials" \in DOMAIN ctlReq.svc.value
    /\ ctlReq.svc.value.materials # <<>>
    /\ Len(ctlRes) = 1

(***************************************************************************)
(* C14.  No handler of the companies, inward-materials, invoices, settings *)
(* or dashboard routers runs unless authenticate ran first and called      *)
(* next(); on the invoices, settings and dashboard routers                 *)
(* authorize(['admin']) ran after it and called next() as well; a body     *)
(* validator runs only after those, and where the route declares one the   *)
(* handler runs only after it called next().                               *)
(***************************************************************************)
ran(kind) == {k \in DOMAIN routeRan : routeRan[k].layer.kind = kind}

passed(kind) == {k \in ran(kind) : routeRan[k].calledNext}

AdminRouters == {"invoices", "settings", "dashboard"}

\* layer k ran after authentication, and after authorization where that is required
guarded(k) ==
    /\ \E a \in passed("authenticate") : a < k
    /\ routeReq.router \in AdminRouters =>
           \E a \in passed("authenticate"), z \in passed("authorize") :
               a < z /\ z < k /\ routeRan[z].layer.arg = "admin"

C14_HandlersBehindAuth ==
    /\ \A h \in ran("handler") :
           /\ guarded(h)
           /\ (\E l \in DOMAIN Routers[routeReq.router][routeReq.route].stack :
                   Routers[routeReq.router][routeReq.route].stack[l].kind = "validate")
                  => \E v \in passed("validate") : v < h
    /\ \A v \in ran("validate") : guarded(v)

\* POST /api/invoices went through authenticate, authorize and validate to its handler
C14_Witness ==
    /\ routeReq.router = "invoices"
    /\ ran("handler") # {}
    /\ passed("validate") # {}
    /\ routeRan[Len(routeRan)].layer = bind("createInvoice")

(***************************************************************************)
(* C15.  The lot number generateLotNo returns is not the lot number of any *)
(* stored entry, whatever createEntry, updateEntry and deleteEntry calls   *)
(* came before; a createEntry without a lotNo, which checks the generated  *)
(* number against the stored ones, then cannot fail on that check.         *)
(***************************************************************************)
C15_GeneratedLotIsFresh ==
    \A e \in inwardEntries : e.lotNo # generateLotNo(inwardEntries)

C17_NoUpdateAfterFailedLoad ==
    [][(pendingSubmit.kind = "none" /\ pendingSubmit'.kind = "update" /\ pendingAppend = 0)
          => /\ history.fullInvoice.id = pendingSubmit'.id
             /\ Len(pendingSubmit'.materials) >= Len(history.fullInvoice.materials)
      ]_vars

(***************************************************************************)
(* C18.  The append candidate belongs to the selected company: once no     *)
(* check is in flight, existingInvoice is null or an invoice of            *)
(* formData.companyId; and the response of a check made for a company      *)
(* that is no longer the selected one changes none of existingInvoice,     *)
(* showAppendAlert and isAppendMode.                                       *)
(***************************************************************************)
C18_CandidateOfSelectedCompany ==
    [][/\ (checksInFlight' = 0 /\ existingInvoice' # 0)
              => dbInvoices'[existingInvoice'].companyId = formData'.companyId
       /\ \A c \in ModalCompanies :
              (pendingChecks'[c] < pendingChecks[c] /\ c # formData.companyId)
                  => UNCHANGED appendVars
      ]_vars

(***************************************************************************)
(* C19.  On append the form shows the existing invoice's grand total: for  *)
(* an invoice computed by the modal's formula (the rate on subtotal +      *)
(* additional charges, or no tax with GST off), when the loaded invoice is *)
(* merged into a form without lines, subtotal and charges of its own, the  *)
(* grand total computed from the merged form equals subtotal + additional  *)
(* charges + CGST + SGST of the invoice.                                   *)
(***************************************************************************)
invoiceGrandTotal(inv) ==
    add(add(Num(inv.subtotal + inv.additionalCharges), inv.cgst), inv.sgst)

C19_AppendKeepsGrandTotal ==
    [][(/\ pendingAppend # 0
        /\ formData.materials = <<>> /\ formData.subtotal = 0
        /\ formData'.materials # <<>>)
          => grandTotal' = invoiceGrandTotal(dbInvoices[pendingAppend])
      ]_vars

(***************************************************************************)
(* C20.  The tax rates sent to the backend are the ones the displayed      *)
(* total was computed with: in every form state in which a submit sends a  *)
(* request, the payload's cgstRate and sgstRate equal the rate values used *)
(* for the grand total shown (9 when the settings supplied no rates, 0     *)
(* with GST off).                                                          *)
(***************************************************************************)
C20_PayloadRatesAreShownRates ==
    [][(pendingSubmit.kind = "none" /\ pendingSubmit'.kind # "none")
          => /\ pendingSubmit'.cgstRate = totals(modalVersion, formData).cgstRateValue
             /\ pendingSubmit'.sgstRate = totals(modalVersion, formData).sgstRateValue
      ]_vars

(***************************************************************************)
(* C21.  After a successful submit the form is reset: when the request of  *)
(* handleSubmit resolves, formData (applyGst and the GST rates included),  *)
(* append mode, the existing invoice, the payment flag, the payment amount *)
(* and the manual-edit flag have the values of a modal that is first used. *)
(***************************************************************************)
C21_ResetAfterSubmit ==
    [][(isOpen /\ ~isOpen')
          => /\ formData' = initialFormData(<<>>)
             /\ ~isAppendMode' /\ existingInvoice' = 0
             /\ ~isPaymentReceived' /\ paymentAmount' = Num(0)
             /\ ~isAmountManuallyEdited'
      ]_vars

(***************************************************************************)
(* C22.  When the request of a submit is rejected, the form data, the      *)
(* append state and the payment state are unchanged, the modal stays open  *)
(* (onSuccess and onClose are not called) and isSubmitting is false again. *)
(* isSubmitting is true exactly while a request is in flight, and no       *)
(* second request is started while one is in flight.                       *)
(***************************************************************************)
C22_FailedSubmitKeepsForm ==
    [][/\ isSubmitting' <=> (pendingSubmit'.kind # "none")
       /\ (pendingSubmit.kind # "none" /\ pendingSubmit'.kind # "none")
              => pendingSubmit' = pendingSubmit
       /\ (pendingSubmit.kind # "none" /\ pendingSubmit'.kind = "none" /\ isOpen')
              => /\ UNCHANGED <<formData, appendVars, paymentVars, isOpen>>
                 /\ ~isSubmitting'
      ]_vars

\* an update in append mode was rejected, and the form still holds its lines
C22_Witness ==
    /\ history.submitFailed
    /\ isOpen /\ ~isSubmitting /\ pendingSubmit = NoSubmit
    /\ isAppendMode /\ formData.materials # <<>>

(***************************************************************************)
(* C23.  Unchecking a linked inward entry removes the material line of     *)
(* that entry and no other: in a form whose lines stand one per selected   *)
(* entry, in the order of selection (in append mode after the existing     *)
(* invoice's), unchecking the k-th selected entry removes the k-th line    *)
(* and leaves the other lines as they are; and after any sequence of       *)
(* check, uncheck, removeMaterial and updateMaterial, on a modal opened    *)
(* without preselected entries, the list holds as many lines as there are  *)
(* selected entries.                                                       *)
(***************************************************************************)
C23_UncheckRemovesOwnLine ==
    [][\A k \in DOMAIN formData.inwardEntryIds :
           (/\ Len(formData.materials) = Len(formData.inwardEntryIds)
            /\ formData'.inwardEntryIds = without(formData.inwardEntryIds, k))
               => formData'.materials = without(formData.materials, k)
      ]_vars

\* the consequence C23 draws: as many lines as selected entries, once the
\* existing invoice of append mode is loaded
C23_OneLinePerSelectedEntry ==
    [][(preselectedEntryIds = <<>> /\ pendingAppend' = 0)
           => Len(formData'.materials) = Len(formData'.inwardEntryIds)
      ]_vars
=============================================================================
